---- MODULE Spec2Model ----
(***************************************************************************)
(* Model of the concurrent-force solvers (solver/equilibrium_solver.py,    *)
(* solver/resultant_solver.py), of the solve block of app_equilibrium.py   *)
(* and of the renderer helper that turns a solution into drawing           *)
(* properties; and of the Streamlit page app_equilibrium.py as a sequence  *)
(* of script runs over st.session_state (ui/force_properties_ui.py,        *)
(* ui/session_manager.py), one run per user event or requested rerun.      *)
(*                                                                         *)
(* Numbers.  Floats are modelled in fixed point:                           *)
(*   force components, magnitudes      thousandths of a unit  (Milli)      *)
(*   angles in degrees                 hundredths of a degree (CentiDeg)   *)
(*   angles in radians                 1e-5 rad, Pi = 314159               *)
(* A component sum carries, besides its thousandths, a remainder in          *)
(* ten-thousandths (contributed by the magnitudes given on that finer      *)
(* grid); the remainder decides the rounding where the thousandths are     *)
(* zero, which is where the comparisons with the zero tolerance are made.  *)
(* Degrees and radians are different integers, so a missing or doubled     *)
(* conversion changes the value.  Floating-point noise (cos(90 deg) being  *)
(* 6e-17 instead of 0, signed zeros) is not modelled: trigonometry of the  *)
(* input angles is exact to the fixed-point grid.                          *)
(***************************************************************************)
EXTENDS Integers, Sequences, FiniteSets, TLC

VARIABLES vectors, sympy_reply, session_state, call, solver_output, shown,
          warning, pinned, written, ui

vars == <<vectors, sympy_reply, session_state, call, solver_output, shown,
          warning, pinned, written, ui>>

\* ------------------------------------------------------------------ bounds
MaxForces == 3
MaxCands == 2
\* the user events of one session of the app, and the reruns counted by
\* canvas_reset
MaxEvents == 3
MaxCanvasReset == 6

\* ---------------------------------------------------------- fixed point
Milli == 1000
CentiDeg == 100
\* the finer grid of the remainders: ten-thousandths of a unit
FinePerUnit == 10000
PiRad == 314159
TwoPiRad == 628318
\* core/config.NUMERIC_ZERO_TOLERANCE = 1e-6, held as its reciprocal
NUMERIC_ZERO_TOLERANCE_INV == 1000000

Abs(x) == IF x < 0 THEN -x ELSE x

\* a / b rounded to the nearest integer (b > 0), halves away from zero
RoundDiv(a, b) == IF a >= 0 THEN (2 * a + b) \div (2 * b)
                  ELSE -((2 * (-a) + b) \div (2 * b))

\* ------------------------------------------------------- force fields
\* A Vector field holds any Python object.  k is its kind:
\*   "num"        a finite float or int, v its value
\*   "small"      a finite float below the rounding step, v its value in
\*                ten-thousandths of a unit (0.0004 is v = 4)
\*   "milli"      a finite float taken from a solution, v its value in
\*                thousandths of a unit (14.142 is v = 14142)
\*   "nonfinite"  float('inf') / float('nan'): still isinstance(x, float)
\*   "None"       None
\*   "blank"      a str whose strip() is ""
\*   "text"       any other str
Num(n) == [k |-> "num", v |-> n]
Small(n) == [k |-> "small", v |-> n]
Solved(n) == [k |-> "milli", v |-> n]
NonFinite == [k |-> "nonfinite", v |-> 0]
None == [k |-> "None", v |-> 0]
Blank == [k |-> "blank", v |-> 0]
Text == [k |-> "text", v |-> 0]

Vector(a, m, d) == [angle |-> a, magnitude |-> m, drawn_length |-> d]

\* mutant: the test is one of truthiness, so that 0 does not count as a number
IsFloatOrInt_ZeroExcluded(f) ==
    f.k \in {"num", "small", "milli", "nonfinite"} /\ ~(f.k = "num" /\ f.v = 0)

\* isinstance(x, (float, int))
IsFloatOrInt(f) == f.k \in {"num", "small", "milli", "nonfinite"}

\* the thousandths and the remainder (ten-thousandths) of a magnitude times a
\* cosine or sine given in thousandths
ComponentMilli(mag, trig) == IF mag.k = "small" THEN 0 ELSE mag.v * trig
ComponentFine(mag, trig) == IF mag.k = "small" THEN RoundDiv(mag.v * trig, Milli) ELSE 0

\* float(x) of a finite magnitude field, in thousandths
MagnitudeMilli(f) ==
    IF f.k = "small" THEN RoundDiv(f.v * Milli, FinePerUnit)
    ELSE IF f.k = "milli" THEN f.v
    ELSE f.v * Milli

\* x is None or (isinstance(x, str) and x.strip() == "")
IsNoneOrBlank(f) == f.k \in {"None", "blank"}

\* ------------------------------------------------------------ symbols
FSym(i) == [t |-> "F", i |-> i]
ThetaSym(i) == [t |-> "theta_rad", i |-> i]
R_sym == [t |-> "R", i |-> 0]
alpha_sym_rad == [t |-> "alpha_rad", i |-> 0]
CalcRMagKey == [t |-> "_calculated_R_mag", i |-> 0]
CalcRAlphaKey == [t |-> "_calculated_R_alpha", i |-> 0]

F_syms(n) == [i \in 1..n |-> FSym(i)]
theta_syms_rad(n) == [i \in 1..n |-> ThetaSym(i)]

InSeq(x, s) == \E j \in 1..Len(s) : s[j] = x

\* --------------------------------------------------- resolved values
\* A value in a solution dictionary.
\*   form   "Float"  sp.Float (or a Python float)
\*          "Exact"  a SymPy number that is not a Float (Integer, Rational)
\*          "Expr"   any other SymPy expression (symbolic, complex)
\*   real   truth of val.is_real
\*   finite FALSE for inf / nan
\*   v      the number (Milli for magnitudes, 1e-5 rad for angles)
Flt(x) == [form |-> "Float", real |-> TRUE, finite |-> TRUE, v |-> x]
FltNonFinite == [form |-> "Float", real |-> TRUE, finite |-> FALSE, v |-> 0]
Exact(x) == [form |-> "Exact", real |-> TRUE, finite |-> TRUE, v |-> x]
ComplexExpr == [form |-> "Expr", real |-> FALSE, finite |-> TRUE, v |-> 0]

\* isinstance(val, (sp.Float, float, int))
IsFloatValue(val) == val.form = "Float"

\* ------------------------------------------------------- math library
\* sin of the first-quadrant angles the inputs use, in thousandths
SinQuadrant(a) ==
    CASE a = 0 -> 0
      [] a = 30 -> 500
      [] a = 45 -> 707
      [] a = 60 -> 866
      [] a = 90 -> 1000

\* sp.sin(sp.Float(math.radians(d))) for d in whole degrees, in thousandths
SinMilli(d) ==
    LET a == d % 360
    IN  IF a <= 90 THEN SinQuadrant(a)
        ELSE IF a <= 180 THEN SinQuadrant(180 - a)
        ELSE IF a <= 270 THEN -SinQuadrant(a - 180)
        ELSE -SinQuadrant(360 - a)

\* sp.cos(sp.Float(math.radians(d))) for d in whole degrees, in thousandths
CosMilli(d) == SinMilli(d + 90)

\* the angles whose sine and cosine the tables hold
InTrigTable(d) == (d % 90) \in {0, 30, 45, 60}

\* the same sines in millionths, for the product with a magnitude that is
\* itself given in thousandths
SinQuadrantMicro(a) ==
    CASE a = 0 -> 0
      [] a = 30 -> 500000
      [] a = 45 -> 707107
      [] a = 60 -> 866025
      [] a = 90 -> 1000000

SinMicro(d) ==
    LET a == d % 360
    IN  IF a <= 90 THEN SinQuadrantMicro(a)
        ELSE IF a <= 180 THEN SinQuadrantMicro(180 - a)
        ELSE IF a <= 270 THEN -SinQuadrantMicro(a - 180)
        ELSE -SinQuadrantMicro(360 - a)

CosMicro(d) == SinMicro(d + 90)

\* magnitude (thousandths) times a sine or cosine (millionths), rounded to
\* thousandths; the product is split to stay within the integer range
ComponentSolved(mag_milli, trig_micro) ==
    LET a == Abs(mag_milli)
        t == Abs(trig_micro)
        p == RoundDiv((a \div Milli) * t + RoundDiv((a % Milli) * t, Milli), Milli)
    IN  IF (mag_milli < 0) # (trig_micro < 0) THEN -p ELSE p

RECURSIVE SqrtSearch(_, _, _)
\* the largest r in lo..hi with r * r <= n
SqrtSearch(n, lo, hi) ==
    IF lo >= hi THEN lo
    ELSE LET mid == (lo + hi + 1) \div 2
         IN  IF mid * mid <= n THEN SqrtSearch(n, mid, hi)
             ELSE SqrtSearch(n, lo, mid - 1)

\* math.hypot(x, y), rounded to the nearest thousandth
Hypot(x, y) ==
    LET n == x * x + y * y
        r == SqrtSearch(n, 0, 46340)
    IN  IF n - r * r > r THEN r + 1 ELSE r

\* atan(2^-(i-1)) in thousandths of a degree
AtanTab == <<45000, 26565, 14036, 7125, 3576, 1790, 895, 448, 224, 112, 56, 28, 14, 7>>

Pow2Tab == <<1, 2, 4, 8, 16, 32, 64, 128, 256, 512, 1024, 2048, 4096, 8192>>

RECURSIVE CordicVec(_, _, _, _)
\* angle of (x, y), x > 0, by CORDIC vectoring, in thousandths of a degree
CordicVec(x, y, z, i) ==
    IF y = 0 \/ i > Len(AtanTab) THEN z
    ELSE LET d == Pow2Tab[i]
         IN  IF y > 0
             THEN CordicVec(x + y \div d, y - x \div d, z + AtanTab[i], i + 1)
             ELSE CordicVec(x + (-y) \div d, y + x \div d, z - AtanTab[i], i + 1)

\* math.degrees(math.atan2(y, x)) in hundredths of a degree, in (-180, 180]
Atan2CentiDeg(y, x) ==
    IF x > 0 THEN RoundDiv(CordicVec(x * 1024, y * 1024, 0, 1), 10)
    ELSE IF x < 0
         THEN IF y >= 0
              THEN 18000 - RoundDiv(CordicVec((-x) * 1024, y * 1024, 0, 1), 10)
              ELSE -18000 + RoundDiv(CordicVec((-x) * 1024, (-y) * 1024, 0, 1), 10)
    ELSE IF y > 0 THEN 9000
    ELSE IF y < 0 THEN -9000
    ELSE 0

\* math.radians(c): hundredths of a degree to 1e-5 rad
Radians(c) ==
    LET a == Abs(c)
        r == RoundDiv((a \div 100) * 1745329, 1000) + RoundDiv((a % 100) * 174533, 10000)
    IN  IF c < 0 THEN -r ELSE r

\* math.degrees(r): 1e-5 rad to hundredths of a degree
Degrees(r) ==
    LET a == Abs(r)
        m == RoundDiv((a \div 1000) * 572958, 1000) + RoundDiv((a % 1000) * 57296, 100000)
        c == RoundDiv(m, 10)
    IN  IF r < 0 THEN -c ELSE c

\* math.atan2(y, x) in 1e-5 rad
Atan2(y, x) == Radians(Atan2CentiDeg(y, x))

\* abs(d) < NUMERIC_ZERO_TOLERANCE, d a number held with `scale` units per 1
BelowTolerance(d, scale) == Abs(d) * (NUMERIC_ZERO_TOLERANCE_INV \div scale) < 1

\* core/geometry_utils.normalize_angle_radians
normalize_angle_radians(angle_radians) ==
    LET normalized_angle == angle_radians % TwoPiRad
    IN  IF normalized_angle < 0 THEN normalized_angle + TwoPiRad ELSE normalized_angle

\* --------------------------------------------------- the sp.solve reply
\* What the computer-algebra library answers when sp.solve is invoked on
\* this system: it raises, or it returns a list of candidates.  A candidate
\* is given by its shape and is laid over whatever unknowns the call has:
\*   neg      the magnitude symbols (F_i, R) that resolve to a negative number
\*   form     the SymPy form of those negative numbers ("Float" or "Exact")
\*   nonreal  "none", "first" (the first unknown is non-real) or "all"
Cand(neg, form, nonreal) == [neg |-> neg, form |-> form, nonreal |-> nonreal]

Range(s) == {s[j] : j \in 1..Len(s)}

CandValue(c, s, unknown_symbols) ==
    IF c.nonreal = "all" \/ (c.nonreal = "first" /\ s = unknown_symbols[1])
    THEN ComplexExpr
    ELSE IF s \in c.neg
         THEN (IF c.form = "Float" THEN Flt(-5000) ELSE Exact(-5000))
    ELSE IF s.t \in {"F", "R"} THEN Flt(5000)
    ELSE Flt(78540)

\* sp.solve(equations, unknown_symbols, dict=True), when it returns
sp_solve(reply, unknown_symbols) ==
    [j \in 1..Len(reply.cands) |->
        [s \in Range(unknown_symbols) |-> CandValue(reply.cands[j], s, unknown_symbols)]]

\* ------------------------------------------------------ equation builder
\* The state of the loop over the forces (both solvers run the same loop).
LoopStart ==
    [error |-> FALSE,
     unknown_symbols |-> <<>>,
     sum_fx_latex_raw_trig_terms |-> <<>>,
     sum_fy_latex_raw_trig_terms |-> <<>>,
     constant_fx_sum |-> 0,
     constant_fy_sum |-> 0,
     constant_fx_fine |-> 0,
     constant_fy_fine |-> 0,
     constant_finite |-> TRUE,
     symbolic_fx_latex_terms |-> <<>>,
     symbolic_fy_latex_terms |-> <<>>]

\* the entry of force i in a raw term list: "<mag> \cos(<angle>)" or
\* "<mag> \sin(<angle>)", the magnitude and the angle being a number or a symbol
RawTerm(i, mag_num, ang_num, trig) ==
    [i |-> i, mag_known |-> mag_num, ang_known |-> ang_num, trig |-> trig]

\* mutant: a force with an unset field gets no entry
AppendRawTerm_KnownOnly(terms, term) ==
    IF term.mag_known /\ term.ang_known THEN Append(terms, term) ELSE terms

\* sum_fx_latex_raw_trig_terms.append(...) / sum_fy_latex_raw_trig_terms.append(...)
AppendRawTerm(terms, term) == Append(terms, term)

\* One pass of the loop body for force i
LoopBody(acc, i, vec_obj) ==
    LET current_mag_input == vec_obj.magnitude
        current_angle_input == vec_obj.angle
        mag_num == IsFloatOrInt(current_mag_input)
        ang_num == IsFloatOrInt(current_angle_input)
        unk1 == IF mag_num THEN acc.unknown_symbols
                ELSE Append(acc.unknown_symbols, FSym(i))
        unk2 == IF ang_num THEN unk1 ELSE Append(unk1, ThetaSym(i))
        term == RawTerm(i, mag_num, ang_num, "cos")
        term_y == RawTerm(i, mag_num, ang_num, "sin")
    IN  IF ~mag_num /\ ~IsNoneOrBlank(current_mag_input)
        THEN [acc EXCEPT !.error = TRUE]
        ELSE IF ~ang_num /\ ~IsNoneOrBlank(current_angle_input)
        THEN [acc EXCEPT !.error = TRUE]
        ELSE [acc EXCEPT
                !.unknown_symbols = unk2,
                !.sum_fx_latex_raw_trig_terms = AppendRawTerm(@, term),
                !.sum_fy_latex_raw_trig_terms = AppendRawTerm(@, term_y),
                !.constant_fx_sum =
                    IF mag_num /\ ang_num
                    THEN @ + (IF current_mag_input.k = "milli"
                              THEN ComponentSolved(current_mag_input.v,
                                                   CosMicro(current_angle_input.v))
                              ELSE ComponentMilli(current_mag_input,
                                                  CosMilli(current_angle_input.v)))
                    ELSE @,
                !.constant_fy_sum =
                    IF mag_num /\ ang_num
                    THEN @ + (IF current_mag_input.k = "milli"
                              THEN ComponentSolved(current_mag_input.v,
                                                   SinMicro(current_angle_input.v))
                              ELSE ComponentMilli(current_mag_input,
                                                  SinMilli(current_angle_input.v)))
                    ELSE @,
                !.constant_fx_fine =
                    IF mag_num /\ ang_num
                    THEN @ + ComponentFine(current_mag_input, CosMilli(current_angle_input.v))
                    ELSE @,
                !.constant_fy_fine =
                    IF mag_num /\ ang_num
                    THEN @ + ComponentFine(current_mag_input, SinMilli(current_angle_input.v))
                    ELSE @,
                !.constant_finite =
                    IF mag_num /\ ang_num
                    THEN @ /\ current_mag_input.k # "nonfinite"
                           /\ current_angle_input.k # "nonfinite"
                    ELSE @,
                !.symbolic_fx_latex_terms = IF mag_num /\ ang_num THEN @ ELSE Append(@, term),
                !.symbolic_fy_latex_terms = IF mag_num /\ ang_num THEN @ ELSE Append(@, term_y)]

RECURSIVE BuildLoop(_, _, _)
\* for i, vec_obj in enumerate(vectors): ... (an invalid field returns at once)
BuildLoop(vecs, i, acc) ==
    IF i > Len(vecs) \/ acc.error THEN acc
    ELSE BuildLoop(vecs, i + 1, LoopBody(acc, i, vecs[i]))

\* float(expr) of a constant sum, as a Python float
FloatOf(x, finite) == IF finite THEN Flt(x) ELSE FltNonFinite

\* sp.Float(vec_obj.magnitude) / sp.Float(math.radians(vec_obj.angle))
KnownValue(sym, vecs) ==
    LET f == IF sym.t = "F" THEN vecs[sym.i].magnitude ELSE vecs[sym.i].angle
    IN  IF f.k = "nonfinite" THEN FltNonFinite
        ELSE IF sym.t = "F" THEN Flt(MagnitudeMilli(f))
        ELSE Flt(Radians(f.v * CentiDeg))

\* the symbols of the numeric fields, which the dummy solution carries
KnownSyms(vecs) ==
    {FSym(i) : i \in {j \in 1..Len(vecs) : IsFloatOrInt(vecs[j].magnitude)}}
    \cup {ThetaSym(i) : i \in {j \in 1..Len(vecs) : IsFloatOrInt(vecs[j].angle)}}

\* ------------------------------------------------------ the result record
\* keys: the keys of the returned dict.  branch, sp_solve_called, raised and
\* messages record what the call did besides returning (the branch taken,
\* whether sp.solve was invoked, whether an exception left the function, the
\* st.* messages emitted).
NoResult ==
    [keys |-> {},
     error |-> FALSE,
     all_sols |-> <<>>,
     unknown_symbols |-> <<>>,
     sum_fx_latex_raw_trig_terms |-> <<>>,
     sum_fy_latex_raw_trig_terms |-> <<>>,
     constant_fx_sum |-> Flt(0),
     constant_fy_sum |-> Flt(0),
     calculated_R_mag |-> Flt(0),
     calculated_R_alpha |-> Flt(0),
     branch |-> "none",
     sp_solve_called |-> FALSE,
     raised |-> FALSE,
     debug_lines |-> FALSE,
     messages |-> {}]

\* return {"error": True}
ErrorReturn ==
    [NoResult EXCEPT !.keys = {"error"}, !.error = TRUE,
                     !.branch = "validation_error", !.messages = {"invalid_input"}]

\* an exception left the function: the caller gets no result
RaisedOut == [NoResult EXCEPT !.raised = TRUE, !.branch = "exception"]

EquilibriumKeys ==
    {"all_sols", "F_syms", "theta_syms_rad", "sum_fx_latex_raw_trig_terms",
     "sum_fy_latex_raw_trig_terms", "constant_fx_sum", "constant_fy_sum",
     "symbolic_fx_latex_terms", "symbolic_fy_latex_terms", "unknown_symbols",
     "error", "_calculated_R_mag", "_calculated_R_alpha"}

ResultantKeys ==
    {"all_sols", "F_syms", "theta_syms_rad", "R_sym", "alpha_sym_rad",
     "sum_fx_latex_raw_trig_terms", "sum_fy_latex_raw_trig_terms",
     "constant_fx_sum", "constant_fy_sum", "symbolic_fx_latex_terms",
     "symbolic_fy_latex_terms", "current_R_expr", "current_alpha_rad_expr",
     "unknown_symbols", "error"}

\* mutant: under debug_mode the call stops after its debug lines
DebugLines_DropsSolutions(out, debug_mode) ==
    [out EXCEPT !.debug_lines = debug_mode,
                !.all_sols = IF debug_mode /\ out.keys = EquilibriumKeys THEN <<>> ELSE @]

\* the st.info("DEBUG: ...") lines of a call: solve_for_equilibrium writes
\* them when the session's debug_mode is set, solve_for_resultant always
DebugLines(out, debug_mode) == [out EXCEPT !.debug_lines = debug_mode]

\* ------------------------------------------------------- solution filter
AllReal(sol) == \A s \in DOMAIN sol : sol[s].real

\* real_sols = [sol for sol in solution_set if all(s.is_real for s in sol.values())]
real_sols(solution_set) == SelectSeq(solution_set, AllReal)

\* the inner loop that sets is_preferred; check_R is TRUE in solve_for_resultant
is_preferred(sol, check_R) ==
    \A var \in DOMAIN sol :
        IsFloatValue(sol[var]) =>
            ~(   (check_R /\ var = R_sym /\ sol[var].finite /\ sol[var].v < 0)
              \/ (var.t = "F" /\ sol[var].finite /\ sol[var].v < 0))

preferred_sols(reals, check_R) ==
    SelectSeq(reals, LAMBDA sol : is_preferred(sol, check_R))

\* if preferred_sols: ... elif real_sols: ... elif solution_set: ... else: ...
FilterSolutions(solution_set, check_R) ==
    LET reals == real_sols(solution_set)
        preferred == preferred_sols(reals, check_R)
    IN  IF preferred # <<>>
        THEN [all_sols |-> preferred, messages |-> {}]
        ELSE IF reals # <<>>
        THEN [all_sols |-> reals, messages |-> {"no_positive_magnitudes"}]
        ELSE IF solution_set # <<>>
        THEN [all_sols |-> solution_set, messages |-> {"no_real_solutions"}]
        ELSE [all_sols |-> <<>>, messages |-> {"no_solutions"}]

\* mutant: the handler lets the exception leave the function
HandleSolveException_Propagates ==
    [all_sols |-> <<>>, messages |-> {"solve_error"}, raised |-> TRUE]

\* except Exception as e: st.error(...); all_sols = []
HandleSolveException ==
    [all_sols |-> <<>>, messages |-> {"solve_error"}, raised |-> FALSE]

\* mutant: a system of exactly two unknowns is reported overdetermined
DeterminacyAdvisory_TwoIsOver(unknown_symbols) ==
    IF Len(unknown_symbols) > 2 THEN {"underdetermined"}
    ELSE IF Len(unknown_symbols) <= 2 THEN {"overdetermined"}
    ELSE {}

\* the over/under-determination warning issued before the try block
DeterminacyAdvisory(unknown_symbols) ==
    IF Len(unknown_symbols) > 2 THEN {"underdetermined"}
    ELSE IF Len(unknown_symbols) < 2 THEN {"overdetermined"}
    ELSE {}

\* mutant: the zero-unknown test never succeeds (the fast path is lost)
NoUnknowns_FastPathLost(unknown_symbols) == FALSE

\* if not unknown_symbols:
NoUnknowns(unknown_symbols) == unknown_symbols = <<>>

\* the general branch of either solver: sp.solve, then the filter
GeneralSolve(reply, unknown_symbols, check_R) ==
    IF reply.raises
    THEN HandleSolveException
    ELSE LET f == FilterSolutions(sp_solve(reply, unknown_symbols), check_R)
         IN  [all_sols |-> f.all_sols, messages |-> f.messages, raised |-> FALSE]

\* if not all_sols: st.info("No solutions found for the given system.")
NoSolutionsInfo(all_sols) == IF all_sols = <<>> THEN {"no_solutions"} ELSE {}

\* ------------------------------------------------- solve_for_equilibrium
\* mutant: the f_idx == theta_idx test is left out
is_simple_F_theta_case_AnyForce(unknown_symbols) ==
    LET unknown_F_syms == SelectSeq(unknown_symbols, LAMBDA s : s.t = "F")
        unknown_theta_syms_rad == SelectSeq(unknown_symbols, LAMBDA s : s.t = "theta_rad")
    IN  Len(unknown_F_syms) = 1 /\ Len(unknown_theta_syms_rad) = 1

\* len(unknown_F_syms) == 1 and len(unknown_theta_syms_rad) == 1 and f_idx == theta_idx
is_simple_F_theta_case(unknown_symbols) ==
    LET unknown_F_syms == SelectSeq(unknown_symbols, LAMBDA s : s.t = "F")
        unknown_theta_syms_rad == SelectSeq(unknown_symbols, LAMBDA s : s.t = "theta_rad")
    IN  /\ Len(unknown_F_syms) = 1
        /\ Len(unknown_theta_syms_rad) = 1
        /\ unknown_F_syms[1].i = unknown_theta_syms_rad[1].i

\* mutant: the sign is not flipped
required_f_NotNegated(constant_sum) == constant_sum

\* required_fx = -float(constant_fx_sum)
required_f(constant_sum) == -constant_sum

\* mutant: the x component is taken for the magnitude
F_solved_ComponentOnly(required_fx, required_fy) == required_fx

\* F_solved = math.hypot(required_fx, required_fy)
F_solved(required_fx, required_fy) == Hypot(required_fx, required_fy)

\* theta_solved = math.atan2(required_fy, required_fx)
theta_solved(required_fx, required_fy) == Atan2(required_fy, required_fx)

\* the closed form of solve_for_equilibrium: all_sols = [sol]
ClosedFormEquilibrium(b) ==
    LET unknown_F == SelectSeq(b.unknown_symbols, LAMBDA s : s.t = "F")[1]
        unknown_theta == SelectSeq(b.unknown_symbols, LAMBDA s : s.t = "theta_rad")[1]
        required_fx == required_f(b.constant_fx_sum)
        required_fy == required_f(b.constant_fy_sum)
        sol == [s \in {unknown_F, unknown_theta} |->
                  IF ~b.constant_finite THEN FltNonFinite
                  ELSE IF s = unknown_F THEN Flt(F_solved(required_fx, required_fy))
                  ELSE Flt(theta_solved(required_fx, required_fy))]
    IN  <<sol>>

\* sum_fx_n = float(sum_fx_expr), sum_fy_n = float(sum_fy_expr): where both
\* are zero in thousandths the remainders are the sums
OnFineGrid(b) == b.constant_fx_sum = 0 /\ b.constant_fy_sum = 0

\* res_mag_n = round(math.hypot(sum_fx_n, sum_fy_n), 3), in thousandths
ResultantMagnitude(b) ==
    IF OnFineGrid(b)
    THEN RoundDiv(Hypot(b.constant_fx_fine, b.constant_fy_fine), FinePerUnit \div Milli)
    ELSE Hypot(b.constant_fx_sum, b.constant_fy_sum)

\* res_ang_n = round(math.degrees(math.atan2(sum_fy_n, sum_fx_n)), 2) % 360
ResultantAngleDeg(sum_fx_n, sum_fy_n) ==
    LET res_ang_n == Degrees(Atan2(sum_fy_n, sum_fx_n)) % (360 * CentiDeg)
    IN  IF res_ang_n < 0 THEN res_ang_n + 360 * CentiDeg ELSE res_ang_n

\* the resultant angle of the sums of b, in hundredths of a degree
ResultantAngle(b) ==
    IF OnFineGrid(b) THEN ResultantAngleDeg(b.constant_fx_fine, b.constant_fy_fine)
    ELSE ResultantAngleDeg(b.constant_fx_sum, b.constant_fy_sum)

\* the zero-unknown branch of solve_for_equilibrium
FastPathEquilibrium(vecs, b) ==
    LET res_mag_n == ResultantMagnitude(b)
        res_ang_n == ResultantAngle(b)
        mag == IF b.constant_finite THEN Flt(res_mag_n) ELSE FltNonFinite
        alpha == IF b.constant_finite THEN Flt(Radians(res_ang_n)) ELSE FltNonFinite
        dummy == [s \in {CalcRMagKey, CalcRAlphaKey} \cup KnownSyms(vecs) |->
                    IF s = CalcRMagKey THEN mag
                    ELSE IF s = CalcRAlphaKey THEN alpha
                    ELSE KnownValue(s, vecs)]
    IN  [all_sols |-> <<dummy>>,
         calculated_R_mag |-> mag,
         calculated_R_alpha |-> alpha,
         messages |-> IF b.constant_finite /\ BelowTolerance(res_mag_n, Milli)
                      THEN {"in_equilibrium"} ELSE {"not_in_equilibrium"}]

solve_for_equilibrium(vecs, reply, debug_mode) ==
    LET b == BuildLoop(vecs, 1, LoopStart)
        filled == [NoResult EXCEPT
                     !.keys = EquilibriumKeys,
                     !.unknown_symbols = b.unknown_symbols,
                     !.sum_fx_latex_raw_trig_terms = b.sum_fx_latex_raw_trig_terms,
                     !.sum_fy_latex_raw_trig_terms = b.sum_fy_latex_raw_trig_terms,
                     !.constant_fx_sum = FloatOf(b.constant_fx_sum, b.constant_finite),
                     !.constant_fy_sum = FloatOf(b.constant_fy_sum, b.constant_finite)]
    IN  DebugLines(
        IF b.error THEN ErrorReturn
        ELSE IF NoUnknowns(b.unknown_symbols)
        THEN LET f == FastPathEquilibrium(vecs, b)
             IN  [filled EXCEPT !.all_sols = f.all_sols,
                                !.calculated_R_mag = f.calculated_R_mag,
                                !.calculated_R_alpha = f.calculated_R_alpha,
                                !.branch = "fast_path",
                                !.messages = f.messages]
        ELSE IF is_simple_F_theta_case(b.unknown_symbols)
        THEN [filled EXCEPT !.all_sols = ClosedFormEquilibrium(b),
                            !.branch = "closed_form",
                            !.messages = DeterminacyAdvisory(b.unknown_symbols)]
        ELSE LET g == GeneralSolve(reply, b.unknown_symbols, FALSE)
             IN  [filled EXCEPT !.all_sols = g.all_sols,
                                !.branch = "general",
                                !.sp_solve_called = TRUE,
                                !.raised = g.raised,
                                !.messages = DeterminacyAdvisory(b.unknown_symbols)
                                             \cup g.messages
                                             \cup NoSolutionsInfo(g.all_sols)],
        debug_mode)

\* --------------------------------------------------- solve_for_resultant
\* user_R_value_str / user_alpha_value_str: "", a string that parses as a
\* number (v, whole units or whole degrees), a whitespace-only string, any
\* other string, or the object None
StrEmpty == [k |-> "empty", v |-> 0]
StrNum(n) == [k |-> "numeric", v |-> n]
StrBlank == [k |-> "blank", v |-> 0]
StrText == [k |-> "text", v |-> 0]
ArgNone == [k |-> "None", v |-> 0]

\* if user_R_value_str == "": unknown; else sp.Float(...) / float(...), whose
\* ValueError is caught and whose TypeError (for None) is not
ParseTarget(str) ==
    IF str.k = "empty" THEN "unknown"
    ELSE IF str.k = "numeric" THEN "known"
    ELSE IF str.k = "None" THEN "raises"
    ELSE "invalid"

\* mutant: the target symbols are put in front of the force symbols
WithTargetUnknowns_InFront(unknown_symbols, user_R_value_str, user_alpha_value_str) ==
    LET u1 == IF ParseTarget(user_R_value_str) = "unknown"
              THEN <<R_sym>> \o unknown_symbols ELSE unknown_symbols
    IN  IF ParseTarget(user_alpha_value_str) = "unknown"
        THEN <<alpha_sym_rad>> \o u1 ELSE u1

\* the unknown list after the R and alpha blocks
WithTargetUnknowns(unknown_symbols, user_R_value_str, user_alpha_value_str) ==
    LET u1 == IF ParseTarget(user_R_value_str) = "unknown"
              THEN Append(unknown_symbols, R_sym) ELSE unknown_symbols
    IN  IF ParseTarget(user_alpha_value_str) = "unknown"
        THEN Append(u1, alpha_sym_rad) ELSE u1

\* len(unknown_symbols) == 2 and R_sym in unknown_symbols and alpha_sym_rad in unknown_symbols
is_simple_R_alpha_case(unknown_symbols) ==
    /\ Len(unknown_symbols) = 2
    /\ InSeq(R_sym, unknown_symbols)
    /\ InSeq(alpha_sym_rad, unknown_symbols)

\* R_solved = math.hypot(required_Rx, required_Ry)
R_solved(required_Rx, required_Ry) == Hypot(required_Rx, required_Ry)

\* mutant: the arguments of atan2 are swapped
alpha_solved_Swapped(required_Rx, required_Ry) == Atan2(required_Rx, required_Ry)

\* alpha_solved = math.atan2(required_Ry, required_Rx)
alpha_solved(required_Rx, required_Ry) == Atan2(required_Ry, required_Rx)

\* the closed form of solve_for_resultant; every force is numeric here, so
\* the substituted sum_fx_expr is the sum of all force components
ClosedFormResultant(b) ==
    LET required_Rx == b.constant_fx_sum
        required_Ry == b.constant_fy_sum
        sol == [s \in {R_sym, alpha_sym_rad} |->
                  IF ~b.constant_finite THEN FltNonFinite
                  ELSE IF s = R_sym THEN Flt(R_solved(required_Rx, required_Ry))
                  ELSE Flt(alpha_solved(required_Rx, required_Ry))]
    IN  <<sol>>

\* the zero-unknown branch of solve_for_resultant
FastPathResultant(vecs, b, user_R_value_str, user_alpha_value_str) ==
    LET res_mag_n_calculated == ResultantMagnitude(b)
        res_ang_n_calculated == ResultantAngle(b)
        current_R_expr == user_R_value_str.v * Milli
        current_alpha_rad_expr == Radians(user_alpha_value_str.v * CentiDeg)
        is_consistent ==
            /\ b.constant_finite
            /\ BelowTolerance(res_mag_n_calculated - current_R_expr, Milli)
            /\ BelowTolerance(res_ang_n_calculated - Degrees(current_alpha_rad_expr), CentiDeg)
        mag == IF b.constant_finite THEN Flt(res_mag_n_calculated) ELSE FltNonFinite
        alpha == IF b.constant_finite THEN Flt(Radians(res_ang_n_calculated))
                 ELSE FltNonFinite
        dummy == [s \in {R_sym, alpha_sym_rad} \cup KnownSyms(vecs) |->
                    IF s = R_sym THEN mag
                    ELSE IF s = alpha_sym_rad THEN alpha
                    ELSE KnownValue(s, vecs)]
    IN  [all_sols |-> <<dummy>>,
         calculated_R_mag |-> mag,
         calculated_R_alpha |-> alpha,
         messages |-> IF is_consistent THEN {"consistent"} ELSE {"inconsistent"}]

solve_for_resultant(vecs, user_R_value_str, user_alpha_value_str, reply) ==
    LET b == BuildLoop(vecs, 1, LoopStart)
        unknown_symbols ==
            WithTargetUnknowns(b.unknown_symbols, user_R_value_str, user_alpha_value_str)
        filled == [NoResult EXCEPT
                     !.keys = ResultantKeys,
                     !.unknown_symbols = unknown_symbols,
                     !.sum_fx_latex_raw_trig_terms = b.sum_fx_latex_raw_trig_terms,
                     !.sum_fy_latex_raw_trig_terms = b.sum_fy_latex_raw_trig_terms,
                     !.constant_fx_sum = FloatOf(b.constant_fx_sum, b.constant_finite),
                     !.constant_fy_sum = FloatOf(b.constant_fy_sum, b.constant_finite)]
    IN  DebugLines(
        IF b.error THEN ErrorReturn
        ELSE IF ParseTarget(user_R_value_str) = "raises" THEN RaisedOut
        ELSE IF ParseTarget(user_R_value_str) = "invalid" THEN ErrorReturn
        ELSE IF ParseTarget(user_alpha_value_str) = "raises" THEN RaisedOut
        ELSE IF ParseTarget(user_alpha_value_str) = "invalid" THEN ErrorReturn
        ELSE IF NoUnknowns(unknown_symbols)
        THEN LET f == FastPathResultant(vecs, b, user_R_value_str, user_alpha_value_str)
             IN  [filled EXCEPT !.all_sols = f.all_sols,
                                !.calculated_R_mag = f.calculated_R_mag,
                                !.calculated_R_alpha = f.calculated_R_alpha,
                                !.branch = "fast_path",
                                !.messages = f.messages]
        ELSE IF is_simple_R_alpha_case(unknown_symbols)
        THEN [filled EXCEPT !.all_sols = ClosedFormResultant(b),
                            !.branch = "closed_form",
                            !.messages = DeterminacyAdvisory(unknown_symbols)]
        ELSE LET g == GeneralSolve(reply, unknown_symbols, TRUE)
             IN  [filled EXCEPT !.all_sols = g.all_sols,
                                !.branch = "general",
                                !.sp_solve_called = TRUE,
                                !.raised = g.raised,
                                !.messages = DeterminacyAdvisory(unknown_symbols)
                                             \cup g.messages
                                             \cup NoSolutionsInfo(g.all_sols)],
        TRUE)

\* ----------------------------------------------- renderer / app display
\* renderer/diagram_renderer._get_effective_vector_drawing_properties.
\* float() of a value that is not a real number raises (raises = TRUE).
get_effective_vector_drawing_properties(vec_obj, solution_dict, F_symbol, theta_sym) ==
    LET mag_solved == F_symbol \in DOMAIN solution_dict
        ang_solved == theta_sym \in DOMAIN solution_dict
        raises == \/ (mag_solved /\ ~solution_dict[F_symbol].real)
                  \/ (ang_solved /\ ~solution_dict[theta_sym].real)
        finite == /\ (mag_solved => solution_dict[F_symbol].finite)
                  /\ (ang_solved => solution_dict[theta_sym].finite)
                  /\ (~mag_solved => vec_obj.magnitude.k # "nonfinite")
                  /\ (~ang_solved => vec_obj.angle.k # "nonfinite")
        mag_val == IF mag_solved THEN solution_dict[F_symbol].v
                   ELSE IF IsFloatOrInt(vec_obj.magnitude) THEN MagnitudeMilli(vec_obj.magnitude)
                   ELSE 0
        ang_val == IF ang_solved THEN solution_dict[theta_sym].v
                   ELSE IF IsFloatOrInt(vec_obj.angle) THEN vec_obj.angle.v * CentiDeg
                   ELSE 0
        effective_mag == Abs(mag_val)
        ang_rad_initial == IF ang_solved THEN ang_val ELSE Radians(ang_val)
        effective_ang_rad == IF mag_val < 0 THEN ang_rad_initial + PiRad
                             ELSE ang_rad_initial
    IN  [raises |-> raises,
         finite |-> finite,
         effective_mag |-> IF raises \/ ~finite THEN 0 ELSE effective_mag,
         effective_ang_rad |-> IF raises \/ ~finite THEN 0
                               ELSE normalize_angle_radians(effective_ang_rad)]

\* app_equilibrium.py, the line shown for one entry of a solution:
\*   "reversed"  st.warning(f"{var} = {abs(v):.3f} (direction reversed)")
\*   "value"     st.success(f"{var} = {v:.3f}")
\*   "angle"     st.success of math.degrees(v) % 360
\*   "symbolic"  st.info(f"{var} = {val} (Symbolic or Complex)")
\*   "nothing"   a float entry that is neither a force magnitude nor an angle
DisplayLine(var, val) ==
    IF IsFloatValue(val)
    THEN IF var.t = "F"
         THEN IF val.finite /\ val.v < 0
              THEN [kind |-> "reversed", v |-> Abs(val.v)]
              ELSE [kind |-> "value", v |-> val.v]
         ELSE IF var.t = "theta_rad"
         THEN [kind |-> "angle", v |-> Degrees(val.v) % (360 * CentiDeg)]
         ELSE [kind |-> "nothing", v |-> 0]
    ELSE [kind |-> "symbolic", v |-> 0]

\* what the solve block of app_equilibrium.py puts on the page for one solution
ShowSolution(vecs, sol) ==
    [lines |-> [var \in DOMAIN sol |-> DisplayLine(var, sol[var])],
     drawing |-> [i \in 1..Len(vecs) |->
                    get_effective_vector_drawing_properties(
                        vecs[i], sol, FSym(i), ThetaSym(i))]]

\* the page after the solve block: nothing when the solver reported an error
\* or did not return
ShowResults(vecs, out) ==
    IF out.error \/ out.raised THEN <<>>
    ELSE [j \in 1..Len(out.all_sols) |-> ShowSolution(vecs, out.all_sols[j])]

\* app_equilibrium.py, the solve block after "Solving for": the st.warning
\* shown with any result that is not an error
DeterminacyWarning(out) ==
    IF out.error \/ out.raised THEN {}
    ELSE IF Len(out.unknown_symbols) > 2 THEN {"underdetermined"}
    ELSE IF Len(out.unknown_symbols) < 2 THEN {"overdetermined"}
    ELSE {}

\* --------------------------------------------------------------- inputs
ForceInputs ==
    {Vector(Num(0), Num(10), 0), Vector(Num(90), Num(10), 0), Vector(Num(180), Num(10), 0),
     Vector(None, None, 0), Vector(Num(0), None, 0), Vector(None, Num(10), 0),
     Vector(Blank, Blank, 0), Vector(Num(0), Text, 0), Vector(Text, Num(10), 0),
     Vector(Num(0), NonFinite, 0)}

ForceLists == UNION {[1..n -> ForceInputs] : n \in 0..MaxForces}

\* further systems: a zero magnitude, the symmetric triangle
EdgeCases ==
    {<<Vector(Num(0), Num(0), 0)>>,
     <<Vector(Num(90), Num(0), 0), Vector(None, None, 0)>>,
     <<Vector(Num(0), Num(10), 0), Vector(Num(120), Num(10), 0), Vector(Num(240), Num(10), 0)>>,
     <<Vector(Num(0), Small(4), 0)>>,
     <<Vector(Num(0), Num(10), 0), Vector(Num(180), Num(10), 0), Vector(Num(90), Small(4), 0)>>,
     <<Vector(Num(0), Small(4), 0), Vector(Num(0), Small(4), 0)>>,
     <<Vector(Num(240), Num(10), 0)>>,
     <<Vector(Num(300), Num(10), 0)>>}

BasicReplies ==
    {[raises |-> TRUE, cands |-> <<>>],
     [raises |-> FALSE, cands |-> <<Cand({}, "Float", "none")>>]}

\* systems that reach the general solver, met with every shape of reply
GeneralCases ==
    {<<Vector(Num(0), None, 0), Vector(None, Num(10), 0)>>,
     <<Vector(None, None, 0), Vector(Num(0), Num(10), 0)>>,
     <<Vector(Num(0), None, 0), Vector(Num(90), None, 0)>>,
     <<Vector(Num(0), None, 0), Vector(Num(0), Num(10), 0)>>}

CandShapes ==
    {Cand({}, "Float", "none"),
     Cand({FSym(1)}, "Float", "none"),
     Cand({FSym(2)}, "Float", "none"),
     Cand({R_sym}, "Float", "none"),
     Cand({FSym(1)}, "Exact", "none"),
     Cand({R_sym}, "Exact", "none"),
     Cand({}, "Float", "first"),
     Cand({}, "Float", "all")}

AllReplies ==
    {[raises |-> TRUE, cands |-> <<>>]}
    \cup {[raises |-> FALSE, cands |-> c] :
            c \in UNION {[1..n -> CandShapes] : n \in 0..MaxCands}}

ResultantArgs ==
    {<<StrEmpty, StrEmpty>>, <<StrNum(10), StrNum(90)>>, <<StrNum(10), StrEmpty>>,
     <<StrEmpty, StrNum(90)>>, <<StrText, StrNum(90)>>, <<StrNum(10), StrText>>,
     <<StrEmpty, StrBlank>>, <<StrNum(10), ArgNone>>, <<StrNum(10), StrNum(450)>>,
     <<StrNum(0), StrNum(0)>>}

NoCall == [fn |-> "none", caller |-> "none", R |-> StrEmpty, alpha |-> StrEmpty]

\* st.session_state: the key the solvers read
SessionStart == [debug_mode |-> FALSE]

\* pinned keeps one earlier call (its arguments and its result) for
\* comparison with later ones; PinOff: no call is kept
\* between: a call with other arguments was made since
PinOff ==
    [state |-> "off", call |-> NoCall, vectors |-> <<>>, output |-> NoResult,
     between |-> FALSE]
PinEmpty == [PinOff EXCEPT !.state = "empty"]
Pin(c, vecs, out) ==
    [state |-> "set", call |-> c, vectors |-> vecs, output |-> out, between |-> FALSE]
RecordCall(pin, c, vecs, out) ==
    IF pin.state = "empty" THEN {pin, Pin(c, vecs, out)}
    ELSE IF pin.state = "set"
    THEN {[pin EXCEPT !.between = @ \/ c # pin.call \/ vecs # pin.vectors]}
    ELSE {pin}

\* ui: what stays of the last script run of the app besides
\* st.session_state.  opened: the page has been opened; uploaded_file: the
\* file held by the uploader widget; pending: st.experimental_rerun() was
\* called, the next run starts by itself; event: what started the run;
\* preserve_keys: the argument of a direct reset; events: the user events so
\* far; the other fields are what the run left (see Leave)
UiOff ==
    [opened |-> FALSE, uploaded_file |-> None, pending |-> FALSE, site |-> "none",
     raised |-> FALSE, reset |-> FALSE, start_trigger |-> FALSE,
     start_canvas_reset |-> 0, end_canvas_reset |-> 0,
     input_change |-> FALSE,
     event |-> [t |-> "none", i |-> 0, f |-> "", e |-> StrEmpty],
     preserve_keys |-> {}, events |-> 0]

\* ------------------------------------------------------- state machine
Init ==
    /\ \/ vectors \in ForceLists /\ sympy_reply \in BasicReplies
       \/ vectors \in EdgeCases /\ sympy_reply \in BasicReplies
       \/ vectors \in GeneralCases /\ sympy_reply \in AllReplies
    /\ session_state = SessionStart
    /\ call = NoCall
    /\ solver_output = NoResult
    /\ shown = <<>>
    /\ warning = {}
    /\ pinned = PinOff
    /\ written = 0
    /\ ui = UiOff

\* app_equilibrium.py: the solve block of one script run
SolveEquilibrium ==
    /\ call' = [fn |-> "equilibrium", caller |-> "app", R |-> StrEmpty, alpha |-> StrEmpty]
    /\ solver_output' = solve_for_equilibrium(vectors, sympy_reply, session_state.debug_mode)
    /\ shown' = ShowResults(vectors, solver_output')
    /\ warning' = DeterminacyWarning(solver_output')
    /\ pinned' \in RecordCall(pinned, call', vectors, solver_output')
    /\ UNCHANGED <<vectors, sympy_reply, session_state, written, ui>>

\* mutant: the call empties the sequence it was given
SolveResultant_ClearsVectors ==
    \E args \in ResultantArgs :
        /\ call' = [fn |-> "resultant", caller |-> "direct", R |-> args[1], alpha |-> args[2]]
        /\ solver_output' = solve_for_resultant(vectors, args[1], args[2], sympy_reply)
        /\ shown' = <<>>
        /\ warning' = {}
        /\ pinned' \in RecordCall(pinned, call', vectors, solver_output')
        /\ vectors' = <<>>
        /\ UNCHANGED <<sympy_reply, session_state, written, ui>>

\* a call of solve_for_resultant(vectors, user_R_value_str, user_alpha_value_str)
SolveResultant ==
    \E args \in ResultantArgs :
        /\ call' = [fn |-> "resultant", caller |-> "direct", R |-> args[1], alpha |-> args[2]]
        /\ solver_output' = solve_for_resultant(vectors, args[1], args[2], sympy_reply)
        /\ shown' = <<>>
        /\ warning' = {}
        /\ pinned' \in RecordCall(pinned, call', vectors, solver_output')
        /\ UNCHANGED <<vectors, sympy_reply, session_state, written, ui>>

Next == SolveEquilibrium \/ SolveResultant

Spec == Init /\ [][Next]_vars

\* ------------------------------------------------ a session of several runs
\* The same solve steps in a session in which the debug flag is switched,
\* the solved force is typed back into its fields and one earlier call is
\* kept for comparison.
SessionCases ==
    {<<Vector(Num(0), Num(10), 0), Vector(None, None, 0)>>,
     <<Vector(Num(0), Num(10), 0), Vector(Num(90), Num(10), 0), Vector(None, None, 0)>>,
     <<Vector(None, None, 0), Vector(Num(90), Num(10), 0), Vector(Num(180), Num(10), 0)>>,
     <<Vector(Num(0), Num(10), 0), Vector(Num(180), Num(10), 0), Vector(Blank, Blank, 0)>>,
     <<Vector(Num(45), Num(10), 0), Vector(None, None, 0)>>,
     <<Vector(Num(0), Small(4), 0), Vector(None, None, 0)>>,
     <<Vector(Num(0), NonFinite, 0), Vector(None, None, 0)>>,
     <<Vector(Num(0), None, 0), Vector(None, Num(10), 0)>>,
     <<Vector(Num(0), Num(10), 0), Vector(Num(180), Num(10), 0)>>,
     <<Vector(Num(0), Text, 0), Vector(None, None, 0)>>}

SessionReplies ==
    {[raises |-> TRUE, cands |-> <<>>],
     [raises |-> FALSE, cands |-> <<Cand({FSym(1)}, "Float", "none"),
                                    Cand({}, "Float", "none")>>]}

InitSession ==
    /\ vectors \in SessionCases
    /\ sympy_reply \in SessionReplies
    /\ session_state \in [debug_mode : BOOLEAN]
    /\ call = NoCall
    /\ solver_output = NoResult
    /\ shown = <<>>
    /\ warning = {}
    /\ pinned = PinEmpty
    /\ written = 0
    /\ ui = UiOff

\* st.session_state.debug_mode is switched between two script runs
SetDebugMode ==
    /\ session_state' = [session_state EXCEPT !.debug_mode = ~@]
    /\ UNCHANGED <<vectors, sympy_reply, call, solver_output, shown, warning,
                   pinned, written, ui>>

\* the field the sidebar stores for a typed solution: float(F_solved) as the
\* magnitude; math.degrees(theta_solved) % 360 as the angle (whole degrees)
SolvedField(val, is_angle) ==
    IF ~val.finite THEN NonFinite
    ELSE IF is_angle THEN Num((Degrees(val.v) \div CentiDeg) % 360)
    ELSE Solved(val.v)

\* the angle of a closed-form solution, in degrees, falls on the trig tables
Writable(val) ==
    ~val.finite
    \/ (Degrees(val.v) % CentiDeg = 0 /\ InTrigTable(Degrees(val.v) \div CentiDeg))

\* the closed-form solution of the last solve is typed into the fields of
\* the unknown force; the page of that solve is gone with the rerun
WriteBackSolution ==
    /\ call.fn = "equilibrium"
    /\ solver_output.branch = "closed_form"
    /\ solver_output.all_sols # <<>>
    /\ written = 0
    /\ \E i \in 1..Len(vectors) :
          LET sol == solver_output.all_sols[1]
          IN  /\ solver_output.unknown_symbols = <<FSym(i), ThetaSym(i)>>
              /\ Writable(sol[ThetaSym(i)])
              /\ vectors' = [vectors EXCEPT
                                ![i].magnitude = SolvedField(sol[FSym(i)], FALSE),
                                ![i].angle = SolvedField(sol[ThetaSym(i)], TRUE)]
              /\ written' = i
    /\ call' = NoCall
    /\ solver_output' = NoResult
    /\ shown' = <<>>
    /\ warning' = {}
    /\ UNCHANGED <<sympy_reply, session_state, pinned, ui>>

NextSession ==
    SolveEquilibrium \/ SolveResultant \/ SetDebugMode \/ WriteBackSolution

SpecSession == InitSession /\ [][NextSession]_vars

\* ======================================================================
\* app_equilibrium.py as a whole: st.session_state and the script runs.
\* One action is one run of the script from top to bottom for one user
\* event (Streamlit runs the script again for every widget interaction and
\* for every st.experimental_rerun()).  The drawing of the diagrams is not
\* modelled beyond whether it completes.
\* ======================================================================
\* float('nan'), apart from float('inf') (NonFinite): nan != nan, nan > 0 is
\* False, inf > 0 is True
NaN == [k |-> "nonfinite", v |-> 0, nan |-> TRUE]

\* what is typed into a text input, besides the strings of the targets
StrInf == [k |-> "inf", v |-> 0]
StrNan == [k |-> "nan", v |-> 0]

\* the canvas centre (W // 2, H // 2) and a picked point
OriginCenter == [k |-> "point", v |-> 0]
OriginPicked == [k |-> "point", v |-> 1]

\* core/config.py
BASE_MAGNITUDE_TO_PIXEL_SCALE == 50
IDEAL_MANUAL_FORCE_PIXEL_LENGTH == 100
\* a scale (pixels per unit) is held in hundredths, the step of its input
ScaleCenti == 100

\* the defaults of initialize_common_session_state
CommonDefaults ==
    [debug_mode |-> FALSE,
     vectors |-> <<>>,
     bg_image_bytes |-> None,
     canvas_reset |-> 0,
     origin |-> None,
     pick_origin_mode |-> FALSE,
     last_uploaded_filename |-> None,
     last_solve_click |-> FALSE,
     debug_last_vector_info |-> "",
     last_processed_drawable_object_id |-> None,
     raw_uploaded_file |-> None,
     user_defined_scale_active |-> FALSE,
     reference_drawn_length |-> None,
     reference_magnitude |-> None,
     calculated_pixel_to_unit_scale |-> None]

CommonKeys == DOMAIN CommonDefaults

\* a fresh st.session_state, and st.session_state.clear()
EmptySession == [k \in {} |-> FALSE]

\* st.session_state[k] = v
SetKey(ss, k, v) == [x \in DOMAIN ss \cup {k} |-> IF x = k THEN v ELSE ss[x]]

\* every common key that is missing gets its default
initialize_common_session_state(ss) ==
    [k \in CommonKeys \cup DOMAIN ss |->
        IF k \in DOMAIN ss THEN ss[k] ELSE CommonDefaults[k]]

\* keys_to_actually_preserve before the caller's keys are added
EssentialKeys ==
    {"bg_image_bytes", "last_uploaded_filename", "debug_mode",
     "user_defined_scale_active", "reference_drawn_length",
     "reference_magnitude", "calculated_pixel_to_unit_scale"}

\* mutant: the defaults are written after the preserved values are restored
reset_all_app_state_DefaultsLast(ss, preserve_keys) ==
    initialize_common_session_state(EmptySession)

reset_all_app_state(ss, preserve_keys) ==
    LET with_debug == IF "debug_mode" \in DOMAIN ss THEN ss
                      ELSE SetKey(ss, "debug_mode", FALSE)
        keys_to_actually_preserve == EssentialKeys \cup preserve_keys
        preserved_values ==
            [k \in keys_to_actually_preserve \cap DOMAIN with_debug |-> with_debug[k]]
        cleared == initialize_common_session_state(EmptySession)
    IN  [k \in DOMAIN cleared \cup DOMAIN preserved_values |->
            IF k \in DOMAIN preserved_values THEN preserved_values[k]
            ELSE cleared[k]]

\* ------------------------------------------------------- user events
\* t: the widget; i: the force (or the new scale, in hundredths); f: the
\* field; e: the text typed; obj: the object drawn on the canvas
Event(t, i, f, e, obj) == [t |-> t, i |-> i, f |-> f, e |-> e, obj |-> obj]

\* lines drawn on the canvas (get_object_id, length in pixels, angle in
\* degrees as calculate_vector_properties_from_line gives it) and the point
\* clicked on the origin canvas
Line(id, len, ang) == [id |-> id, drawn_length |-> len, angle |-> ang]
CanvasLines == {Line(1, 50, 90), Line(2, 80, 0)}
CanvasPoint == Line(3, 0, 0)
NoLine == Line(0, 0, 0)

UploadedFile == [k |-> "file", v |-> 0]
ImageBytes == [k |-> "bytes", v |-> 0]

\* -------------------------------------------- file uploader (lines 82-131)
FileUploader(s, uploaded_file) ==
    IF uploaded_file # None
    THEN IF s.last_uploaded_filename # uploaded_file
         THEN [s EXCEPT !.bg_image_bytes = ImageBytes,
                        !.last_uploaded_filename = uploaded_file,
                        !.trigger_rerun_after_logic = TRUE]
         ELSE s
    ELSE IF s.bg_image_bytes # None \/ s.last_uploaded_filename # None
    THEN SetKey(reset_all_app_state([s EXCEPT !.bg_image_bytes = None,
                                              !.last_uploaded_filename = None], {}),
                "trigger_rerun_after_logic", TRUE)
    ELSE s

\* the uploader is empty while the session still holds an image: the state
\* is reset in this run
FileCleared(s, uploaded_file) ==
    uploaded_file = None /\ (s.bg_image_bytes # None \/ s.last_uploaded_filename # None)

\* if st.session_state.origin is None (lines 143-145)
DefaultOrigin(s) ==
    IF s.origin = None THEN [s EXCEPT !.origin = OriginCenter] ELSE s

\* ui/canvas_interaction.handle_origin_selection_ui
handle_origin_selection_ui(s, ev) ==
    IF ev.t = "pick_origin"
    THEN [s EXCEPT !.pick_origin_mode = TRUE,
                   !.last_processed_drawable_object_id = None,
                   !.trigger_rerun_after_logic = TRUE]
    ELSE IF ev.t = "reset_origin"
    THEN [s EXCEPT !.origin = OriginCenter,
                   !.pick_origin_mode = FALSE,
                   !.trigger_rerun_after_logic = TRUE]
    ELSE s

\* the button "Add Force Manually" (lines 166-172)
AddForceManually(s, ev) ==
    IF ev.t = "add_force"
    THEN [s EXCEPT !.vectors = Append(@, Vector(None, None, 0)),
                   !.trigger_rerun_after_logic = TRUE]
    ELSE s

\* ---------------------- ui/force_properties_ui: the inputs of the forces
\* "" if value is None else str(value)
ShowField(f) ==
    IF f = None THEN StrEmpty
    ELSE IF f.k = "num" THEN StrNum(f.v)
    ELSE IF f = NonFinite THEN StrInf
    ELSE IF f = NaN THEN StrNan
    ELSE IF f.k = "blank" THEN StrBlank
    ELSE StrText

\* float(mag_input_str) unless the stripped string is empty; the stripped
\* string where float() raises ValueError
ParseMagnitude(str) ==
    IF str.k \in {"empty", "blank"} THEN None
    ELSE IF str.k = "numeric" THEN Num(str.v)
    ELSE IF str.k = "inf" THEN NonFinite
    ELSE IF str.k = "nan" THEN NaN
    ELSE Text

\* the same with % 360 on the number: inf % 360 is nan
ParseAngle(str) ==
    IF str.k \in {"empty", "blank"} THEN None
    ELSE IF str.k = "numeric" THEN Num(str.v % 360)
    ELSE IF str.k \in {"inf", "nan"} THEN NaN
    ELSE Text

\* Python's != on two field values
PyNotEqual(a, b) == a # b \/ a = NaN

\* vectors.pop(i)
Pop(seq, i) == SubSeq(seq, 1, i - 1) \o SubSeq(seq, i + 1, Len(seq))

\* what the loop stores for force i (lines 50-97): the new vector and
\* trigger_rerun_for_input_change
ForceInput(vec_obj, ev, i) ==
    LET mag_input_str == IF ev.t = "edit" /\ ev.i = i /\ ev.f = "magnitude"
                         THEN ev.e ELSE ShowField(vec_obj.magnitude)
        angle_input_str == IF ev.t = "edit" /\ ev.i = i /\ ev.f = "angle"
                           THEN ev.e ELSE ShowField(vec_obj.angle)
        new_magnitude_val == ParseMagnitude(mag_input_str)
        new_angle_val == ParseAngle(angle_input_str)
        mag_differs == PyNotEqual(vec_obj.magnitude, new_magnitude_val)
        angle_differs == PyNotEqual(vec_obj.angle, new_angle_val)
    IN  [vec |-> [vec_obj EXCEPT
                    !.magnitude = IF mag_differs THEN new_magnitude_val ELSE @,
                    !.angle = IF angle_differs THEN new_angle_val ELSE @],
         trigger_rerun_for_input_change |-> mag_differs \/ angle_differs]

\* The loop over the forces.  The forces are handled one after the other
\* and independently; the delete button of force i is met after the inputs
\* of the forces before it, and its st.experimental_rerun() (line 48) ends
\* the run there.  rerun: that call was made; input_change: some force had
\* trigger_rerun_for_input_change set
render_force_properties_sidebar_content(s, ev) ==
    LET n == Len(s.vectors)
        last == IF ev.t = "delete" THEN ev.i - 1 ELSE n
        handled == [j \in 1..n |-> IF j <= last THEN ForceInput(s.vectors[j], ev, j).vec
                                   ELSE s.vectors[j]]
        input_change ==
            \E j \in 1..last : ForceInput(s.vectors[j], ev, j).trigger_rerun_for_input_change
    IN  IF ev.t = "delete"
        THEN [s |-> [s EXCEPT !.vectors = Pop(handled, ev.i),
                              !.trigger_rerun_after_logic = TRUE],
              rerun |-> TRUE, input_change |-> input_change]
        ELSE [s |-> [s EXCEPT !.vectors = handled,
                              !.trigger_rerun_after_logic = @ \/ input_change],
              rerun |-> FALSE, input_change |-> input_change]

\* --------------------------- ui/force_properties_ui: the drawing scale
\* isinstance(magnitude, (float, int)) and magnitude > 0
PositiveNumber(m) ==
    IsFloatOrInt(m) /\ m # NaN /\ (m = NonFinite \/ m.v > 0)

\* length / magnitude in hundredths of a pixel per unit; length / inf is 0.0
ScaleFrom(len, m) ==
    IF m = NonFinite THEN Num(0) ELSE Num(RoundDiv(len * ScaleCenti, m.v))

\* current_scale_px_per_unit is None or current_scale_px_per_unit <= 0
InvalidScale(scale) ==
    scale = None \/ scale.v <= 0

render_drawing_scale_settings(s, ev) ==
    IF ~s.user_defined_scale_active
    THEN IF s.vectors # <<>> /\ PositiveNumber(s.vectors[1].magnitude)
         THEN LET f1_vec_obj == s.vectors[1]
              IN  IF s.reference_drawn_length # None /\ s.reference_drawn_length.v > 0
                  THEN [s EXCEPT
                          !.reference_magnitude = f1_vec_obj.magnitude,
                          !.calculated_pixel_to_unit_scale =
                              ScaleFrom(s.reference_drawn_length.v, f1_vec_obj.magnitude),
                          !.user_defined_scale_active = TRUE,
                          !.trigger_rerun_after_logic = TRUE]
                  ELSE IF f1_vec_obj.drawn_length = 0
                  THEN [s EXCEPT
                          !.reference_drawn_length = Num(IDEAL_MANUAL_FORCE_PIXEL_LENGTH),
                          !.reference_magnitude = f1_vec_obj.magnitude,
                          !.calculated_pixel_to_unit_scale =
                              ScaleFrom(IDEAL_MANUAL_FORCE_PIXEL_LENGTH, f1_vec_obj.magnitude),
                          !.user_defined_scale_active = TRUE,
                          !.trigger_rerun_after_logic = TRUE]
                  ELSE s
         ELSE s
    ELSE IF InvalidScale(s.calculated_pixel_to_unit_scale)
    THEN [s EXCEPT
            !.calculated_pixel_to_unit_scale = Num(BASE_MAGNITUDE_TO_PIXEL_SCALE * ScaleCenti),
            !.user_defined_scale_active = FALSE,
            !.trigger_rerun_after_logic = TRUE]
    ELSE
    LET current_scale_px_per_unit == s.calculated_pixel_to_unit_scale
        new_scale_px_per_unit == IF ev.t = "adjust_scale" THEN Num(ev.i)
                                 ELSE current_scale_px_per_unit
        adjusted == IF new_scale_px_per_unit # current_scale_px_per_unit
                    THEN [s EXCEPT !.calculated_pixel_to_unit_scale = new_scale_px_per_unit,
                                   !.trigger_rerun_after_logic = TRUE]
                    ELSE s
    IN  IF ev.t = "reset_scale"
        THEN [adjusted EXCEPT !.user_defined_scale_active = FALSE,
                              !.reference_drawn_length = None,
                              !.reference_magnitude = None,
                              !.calculated_pixel_to_unit_scale = None,
                              !.trigger_rerun_after_logic = TRUE]
        ELSE adjusted

\* the button "Solve for Unknowns" (lines 187-190)
SolveButton(s, ev) ==
    IF ev.t = "solve" THEN [s EXCEPT !.last_solve_click = TRUE] ELSE s

\* the button "Clear All Forces & Canvas" (lines 205-209)
ClearAllButton(s, ev) ==
    IF ev.t = "clear_all"
    THEN SetKey(reset_all_app_state(s, {}), "trigger_rerun_after_logic", TRUE)
    ELSE s

\* ui/canvas_interaction.render_origin_pick_canvas
render_origin_pick_canvas(s, ev) ==
    IF ev.t = "pick_point" /\ Num(ev.obj.id) # s.last_processed_drawable_object_id
    THEN [s EXCEPT !.last_processed_drawable_object_id = Num(ev.obj.id),
                   !.origin = OriginPicked,
                   !.pick_origin_mode = FALSE,
                   !.trigger_rerun_after_logic = TRUE]
    ELSE s

\* ui/canvas_interaction.handle_force_drawing_input
handle_force_drawing_input(s, ev) ==
    IF ev.t = "draw" /\ Num(ev.obj.id) # s.last_processed_drawable_object_id
    THEN LET new_vector == Vector(Num(ev.obj.angle), None, ev.obj.drawn_length)
             appended == Append(s.vectors, new_vector)
         IN  [s EXCEPT
                !.last_processed_drawable_object_id = Num(ev.obj.id),
                !.vectors = appended,
                !.reference_drawn_length =
                    IF Len(appended) = 1 /\ ~s.user_defined_scale_active
                    THEN Num(ev.obj.drawn_length) ELSE @,
                !.trigger_rerun_after_logic = TRUE]
    ELSE s

\* the main canvas area (lines 219-227)
MainCanvas(s, ev) ==
    IF s.pick_origin_mode THEN render_origin_pick_canvas(s, ev)
    ELSE handle_force_drawing_input(s, ev)

\* a force with an inf or nan field is drawn: whether the drawing calls
\* accept such coordinates depends on the imaging library
NonFiniteDrawn(s) ==
    \E i \in 1..Len(s.vectors) :
        s.vectors[i].magnitude.k = "nonfinite" \/ s.vectors[i].angle.k = "nonfinite"

\* the buttons "Undo" and "Redo" (lines 196-200)
UndoRedoButtons(s, ev) ==
    IF ev.t \in {"undo", "redo"} THEN SetKey(s, ev.f, TRUE) ELSE s

\* the solve block (lines 372-382): the call
SolveCall(s, reply) ==
    IF s.last_solve_click THEN solve_for_equilibrium(s.vectors, reply, s.debug_mode)
    ELSE NoResult

\* the solve block: if solver_output.get("error")
SolveBlock(s, out) ==
    IF s.last_solve_click /\ out.error THEN [s EXCEPT !.last_solve_click = FALSE]
    ELSE s

\* the final rerun logic (lines 503-514)
FinalRerunLogic(s) ==
    IF s.trigger_rerun_after_logic
    THEN [s EXCEPT !.trigger_rerun_after_logic = FALSE, !.canvas_reset = @ + 1]
    ELSE s

\* lines 44-49: the common keys and the rerun flag
ScriptStart(ss) ==
    LET s0 == initialize_common_session_state(ss)
    IN  IF "trigger_rerun_after_logic" \in DOMAIN s0 THEN s0
        ELSE SetKey(s0, "trigger_rerun_after_logic", FALSE)

\* ----------------------------------------------- the app as a state machine

\* what is typed into the magnitude and the angle inputs
MagnitudeEntries == {StrBlank, StrNum(10), StrText, StrInf, StrNan}
AngleEntries == {StrEmpty, StrNum(450), StrNum(-90), StrText, StrInf}
\* what is typed into the scale input, in hundredths
ScaleEntries == {200}

\* the reply of sp.solve in the app
AppReply == [raises |-> FALSE, cands |-> <<Cand({}, "Float", "none")>>]

InitApp ==
    /\ session_state = EmptySession
    /\ vectors = <<>>
    /\ sympy_reply = AppReply
    /\ call = NoCall
    /\ solver_output = NoResult
    /\ shown = <<>>
    /\ warning = {}
    /\ pinned = PinOff
    /\ written = 0
    /\ ui = UiOff

\* What a run leaves.  s: st.session_state; site: where
\* st.experimental_rerun() was called ("none": nowhere); raised: the run ended
\* with an exception; called: the solver was called, out is its result;
\* reset: reset_all_app_state was called; start: the session the run
\* started with; asked: the session when the rerun was asked for
Leave(s, site, raised, called, out, reset, start, asked, input_change, ev, uploaded_file) ==
    /\ s.canvas_reset <= MaxCanvasReset
    /\ session_state' = s
    /\ vectors' = s.vectors
    /\ call' = IF called
               THEN [fn |-> "equilibrium", caller |-> "app",
                     R |-> StrEmpty, alpha |-> StrEmpty]
               ELSE NoCall
    /\ solver_output' = out
    /\ shown' = IF called THEN ShowResults(s.vectors, out) ELSE <<>>
    /\ warning' = IF called THEN DeterminacyWarning(out) ELSE {}
    /\ ui' = [opened |-> TRUE,
              uploaded_file |-> uploaded_file,
              pending |-> site # "none",
              site |-> site,
              raised |-> raised,
              reset |-> reset,
              start_trigger |-> start.trigger_rerun_after_logic,
              start_canvas_reset |-> start.canvas_reset,
              end_canvas_reset |-> asked.canvas_reset,
              input_change |-> input_change,
              event |-> [t |-> ev.t, i |-> ev.i, f |-> ev.f, e |-> ev.e],
              preserve_keys |-> {},
              events |-> IF ev.t \in {"open", "rerun"} THEN ui.events
                         ELSE ui.events + 1]
    /\ UNCHANGED <<sympy_reply, pinned, written>>

\* One run of the script (app_equilibrium.py from top to bottom) for the
\* event ev with the file the uploader holds.  render_raises:
\* render_free_body_diagram (lines 361-369) raises when it is given a
\* non-finite force
Run(ev, uploaded_file) ==
    \E render_raises \in BOOLEAN :
    \E s1 \in {ScriptStart(session_state)} :
    \E s2 \in {FileUploader(s1, uploaded_file)} :
    \E s3 \in {DefaultOrigin(s2)} :
    \E s4 \in {handle_origin_selection_ui(s3, ev)} :
    \E s5 \in {AddForceManually(s4, ev)} :
    \E p \in {render_force_properties_sidebar_content(s5, ev)} :
        IF p.rerun
        THEN Leave(p.s, "delete", FALSE, FALSE, NoResult,
                   FileCleared(s1, uploaded_file), s1, p.s, p.input_change,
                   ev, uploaded_file)
        ELSE
        \E s6 \in {render_drawing_scale_settings(p.s, ev)} :
        \E s7 \in {UndoRedoButtons(SolveButton(s6, ev), ev)} :
        \E s8 \in {ClearAllButton(s7, ev)} :
        \E s9 \in {MainCanvas(s8, ev)} :
        \E reset \in {FileCleared(s1, uploaded_file) \/ ev.t = "clear_all"} :
            IF render_raises /\ NonFiniteDrawn(s9)
            THEN Leave(s9, "none", TRUE, FALSE, NoResult, reset, s1, s9,
                       p.input_change, ev, uploaded_file)
            ELSE
            \E out \in {SolveCall(s9, sympy_reply)} :
            \E s10 \in {SolveBlock(s9, out)} :
                IF out.raised
                THEN Leave(s10, "none", TRUE, TRUE, out, reset, s1, s10,
                           p.input_change, ev, uploaded_file)
                ELSE
                \E s11 \in {FinalRerunLogic(s10)} :
                    Leave(s11,
                          IF s10.trigger_rerun_after_logic THEN "end" ELSE "none",
                          FALSE, s9.last_solve_click, out, reset, s1, s10,
                          p.input_change, ev, uploaded_file)

\* the page has been rendered and waits for the user
Idle ==
    /\ ui.opened
    /\ ~ui.pending
    /\ ui.events < MaxEvents

\* the page is opened: the first run of the session
OpenPage ==
    /\ ~ui.opened
    /\ Run(Event("open", 0, "", StrEmpty, NoLine), ui.uploaded_file)

\* the run that st.experimental_rerun() starts
RerunRun ==
    /\ ui.pending
    /\ Run(Event("rerun", 0, "", StrEmpty, NoLine), ui.uploaded_file)

\* the scale input and the button "Reset Scale" are on the page
ScaleShown ==
    /\ session_state.user_defined_scale_active
    /\ ~InvalidScale(session_state.calculated_pixel_to_unit_scale)

\* the events the page offers: the uploader, the buttons, the inputs of
\* each force, the scale widgets and the canvas
UserEvents ==
    {Event(IF ui.uploaded_file = None THEN "upload" ELSE "remove_file",
           0, "", StrEmpty, NoLine)}
    \cup {Event(t, 0, "", StrEmpty, NoLine) :
            t \in {"pick_origin", "reset_origin", "solve", "clear_all"}}
    \cup {Event("undo", 0, "undo_requested", StrEmpty, NoLine),
          Event("redo", 0, "redo_requested", StrEmpty, NoLine)}
    \cup (IF Len(vectors) < MaxForces
          THEN {Event("add_force", 0, "", StrEmpty, NoLine)} ELSE {})
    \cup {Event("delete", i, "", StrEmpty, NoLine) : i \in 1..Len(vectors)}
    \cup {Event("edit", i, "magnitude", e, NoLine) :
            i \in 1..Len(vectors), e \in MagnitudeEntries}
    \cup {Event("edit", i, "angle", e, NoLine) :
            i \in 1..Len(vectors), e \in AngleEntries}
    \cup (IF ScaleShown
          THEN {Event("adjust_scale", n, "", StrEmpty, NoLine) : n \in ScaleEntries}
               \cup {Event("reset_scale", 0, "", StrEmpty, NoLine)}
          ELSE {})
    \cup (IF session_state.pick_origin_mode
          THEN {Event("pick_point", 0, "", StrEmpty, CanvasPoint)}
          ELSE IF Len(vectors) < MaxForces
          THEN {Event("draw", 0, "", StrEmpty, l) : l \in CanvasLines}
          ELSE {})

\* the file the uploader holds after the event
FileAfter(ev) ==
    IF ev.t = "upload" THEN UploadedFile
    ELSE IF ev.t = "remove_file" THEN None
    ELSE ui.uploaded_file

\* the run that a user event starts
UserRun ==
    /\ Idle
    /\ \E ev \in UserEvents : Run(ev, FileAfter(ev))

\* the sets a caller passes as preserve_keys
PreserveKeys ==
    {{}, {"vectors", "last_solve_click"}, {"origin", "trigger_rerun_after_logic"}}

\* a call of reset_all_app_state(preserve_keys) between two runs
ResetAllAppState ==
    /\ ~ui.pending
    /\ ui.events < MaxEvents
    /\ \E preserve_keys \in PreserveKeys :
          /\ session_state' = reset_all_app_state(session_state, preserve_keys)
          /\ ui' = [ui EXCEPT !.event = [t |-> "reset_call", i |-> 0, f |-> "",
                                          e |-> StrEmpty],
                              !.preserve_keys = preserve_keys,
                              !.events = @ + 1, !.reset = TRUE]
    /\ vectors' = session_state'.vectors
    /\ call' = NoCall
    /\ solver_output' = NoResult
    /\ shown' = <<>>
    /\ warning' = {}
    /\ UNCHANGED <<sympy_reply, pinned, written>>

NextApp == OpenPage \/ RerunRun \/ UserRun \/ ResetAllAppState

SpecApp == InitApp /\ [][NextApp]_vars

\* ======================================================================
\* Properties.  The helpers below read the inputs of the call directly
\* (vectors, call, sympy_reply); they do not go through the solver.
\* ======================================================================
Called == call.fn # "none"
IsEq == call.fn = "equilibrium"
IsRes == call.fn = "resultant"
Returned == Called /\ ~solver_output.raised /\ ~solver_output.error

FieldUnset(f) == f.k \in {"None", "blank"}
FieldNumeric(f) == f.k \in {"num", "small", "milli", "nonfinite"}
FieldFinite(f) == f.k \in {"num", "small", "milli"}

\* the symbols of the unset inputs of the call
UnsetSyms ==
    {FSym(i) : i \in {j \in 1..Len(vectors) : FieldUnset(vectors[j].magnitude)}}
    \cup {ThetaSym(i) : i \in {j \in 1..Len(vectors) : FieldUnset(vectors[j].angle)}}
    \cup (IF IsRes /\ call.R.k = "empty" THEN {R_sym} ELSE {})
    \cup (IF IsRes /\ call.alpha.k = "empty" THEN {alpha_sym_rad} ELSE {})

AllForcesNumeric ==
    \A i \in 1..Len(vectors) :
        FieldNumeric(vectors[i].magnitude) /\ FieldNumeric(vectors[i].angle)

AllForcesFinite ==
    \A i \in 1..Len(vectors) :
        (FieldNumeric(vectors[i].magnitude) => FieldFinite(vectors[i].magnitude))
        /\ (FieldNumeric(vectors[i].angle) => FieldFinite(vectors[i].angle))

TargetNumeric == IsRes => (call.R.k = "numeric" /\ call.alpha.k = "numeric")

AllFieldsUnsetOrNumeric ==
    \A i \in 1..Len(vectors) :
        /\ FieldUnset(vectors[i].magnitude) \/ FieldNumeric(vectors[i].magnitude)
        /\ FieldUnset(vectors[i].angle) \/ FieldNumeric(vectors[i].angle)

RECURSIVE SumComponents(_, _, _)
\* the summed x ("x") or y ("y") components, in thousandths, of the fully
\* numeric forces among the first n
SumComponents(axis, vecs, n) ==
    IF n = 0 THEN 0
    ELSE SumComponents(axis, vecs, n - 1)
         + (IF FieldNumeric(vecs[n].magnitude) /\ FieldNumeric(vecs[n].angle)
               /\ vecs[n].magnitude.k # "small"
            THEN vecs[n].magnitude.v
                 * (IF axis = "x" THEN CosMilli(vecs[n].angle.v) ELSE SinMilli(vecs[n].angle.v))
            ELSE 0)

SumX == SumComponents("x", vectors, Len(vectors))
SumY == SumComponents("y", vectors, Len(vectors))

RECURSIVE SumSmall(_, _, _)
\* the same sum over the forces whose magnitude is given in ten-thousandths,
\* in ten-thousandths
SumSmall(axis, vecs, n) ==
    IF n = 0 THEN 0
    ELSE SumSmall(axis, vecs, n - 1)
         + (IF vecs[n].magnitude.k = "small" /\ FieldNumeric(vecs[n].angle)
            THEN RoundDiv(vecs[n].magnitude.v
                          * (IF axis = "x" THEN CosMilli(vecs[n].angle.v)
                             ELSE SinMilli(vecs[n].angle.v)), Milli)
            ELSE 0)

\* the component sums of all forces in ten-thousandths
TrueSumX == SumX * (FinePerUnit \div Milli) + SumSmall("x", vectors, Len(vectors))
TrueSumY == SumY * (FinePerUnit \div Milli) + SumSmall("y", vectors, Len(vectors))

\* the magnitude of the component sum, in ten-thousandths
TrueMagnitude ==
    IF SumX = 0 /\ SumY = 0 THEN Hypot(TrueSumX, TrueSumY)
    ELSE Hypot(SumX, SumY) * (FinePerUnit \div Milli)

\* the direction of the component sum in [0, 360), in hundredths of a degree
TrueAngle == Atan2CentiDeg(TrueSumY, TrueSumX) % (360 * CentiDeg)

FastPathReturned == Returned /\ solver_output.branch = "fast_path"

\* the candidates sp.solve handed back in this call
RawCandidates == sp_solve(sympy_reply, solver_output.unknown_symbols)

GeneralReturned ==
    Returned /\ solver_output.branch = "general" /\ ~sympy_reply.raises

\* ---------------------------------------------------------------- C1
\* C1: a non-error call with unknowns takes the closed form iff its unknowns
\* are exactly the magnitude and the angle of one force (equilibrium), or
\* exactly R and alpha (resultant); with any other non-empty unknown set the
\* general solver is invoked with the full unknown list.
C1_ClosedFormSet ==
    IF IsEq THEN \E i \in 1..Len(vectors) : UnsetSyms = {FSym(i), ThetaSym(i)}
    ELSE UnsetSyms = {R_sym, alpha_sym_rad}

C1_Dispatch ==
    Returned =>
        /\ (solver_output.branch = "closed_form") <=> C1_ClosedFormSet
        /\ (UnsetSyms # {} /\ ~C1_ClosedFormSet) =>
              /\ solver_output.branch = "general"
              /\ solver_output.sp_solve_called
              /\ Range(solver_output.unknown_symbols) = UnsetSyms
              /\ Len(solver_output.unknown_symbols) = Cardinality(UnsetSyms)
              /\ \A j \in 1..Len(RawCandidates) : DOMAIN RawCandidates[j] = UnsetSyms

\* a resultant call with one force's magnitude and angle unknown, R and alpha
\* known, went to the general solver
C1_Witness ==
    /\ IsRes /\ Returned
    /\ UnsetSyms = {FSym(1), ThetaSym(1)}
    /\ solver_output.branch = "general"
    /\ solver_output.sp_solve_called

\* ---------------------------------------------------------------- C2
\* C2: a call in which no field is unknown never invokes sp.solve, and when
\* every field is a number it takes the numeric fast path.
C2_FastPathNoSolve ==
    Called =>
        /\ (UnsetSyms = {}) => ~solver_output.sp_solve_called
        /\ (AllForcesNumeric /\ TargetNumeric) =>
              /\ solver_output.branch = "fast_path"
              /\ ~solver_output.sp_solve_called
              /\ ~solver_output.error

C2_Witness ==
    /\ Called /\ AllForcesNumeric /\ TargetNumeric /\ Len(vectors) >= 2
    /\ solver_output.branch = "fast_path"

\* ---------------------------------------------------------------- C3
\* the force whose magnitude and angle are both unset, in a closed-form call
ClosedFormIndex == CHOOSE i \in 1..Len(vectors) : UnsetSyms = {FSym(i), ThetaSym(i)}

EqClosedForm == IsEq /\ Returned /\ solver_output.branch = "closed_form"

\* C3: the closed form of solve_for_equilibrium returns exactly one solution,
\* which resolves the unknown force's magnitude and angle to floats, and the
\* magnitude is not negative, whatever the known forces are.
C3_UniqueNonNegative ==
    EqClosedForm =>
        /\ Len(solver_output.all_sols) = 1
        /\ DOMAIN solver_output.all_sols[1] =
              {FSym(ClosedFormIndex), ThetaSym(ClosedFormIndex)}
        /\ LET F == solver_output.all_sols[1][FSym(ClosedFormIndex)]
           IN  F.form = "Float" /\ F.real /\ (F.finite => F.v >= 0)

\* known forces that sum to zero (10 @ 0 and 10 @ 180) with a third, unknown
\* force: the solved magnitude is 0
C3_Witness ==
    /\ EqClosedForm /\ Len(vectors) = 3 /\ AllForcesFinite
    /\ \E i \in 1..3 : FieldNumeric(vectors[i].magnitude) /\ vectors[i].magnitude.v # 0
    /\ SumX = 0 /\ SumY = 0
    /\ solver_output.all_sols[1][FSym(ClosedFormIndex)].v = 0

\* ---------------------------------------------------------------- C4
\* two directions in hundredths of a degree agree within one hundredth
SameDirection(a, b) ==
    LET d == (a - b) % (360 * CentiDeg) IN d <= 1 \/ d >= 360 * CentiDeg - 1

\* C4: in the closed form of solve_for_equilibrium the solved force is the
\* negative of the vector sum of all the other forces: its magnitude is the
\* length of that sum and its direction is opposite to it.  (10 @ 0) and an
\* unknown force give 10 @ 180; (10 @ 0), (10 @ 90) and an unknown force give
\* 14.142 @ 225.
C4_CancelsOthers ==
    (EqClosedForm /\ AllForcesFinite) =>
        LET sol == solver_output.all_sols[1]
            F == sol[FSym(ClosedFormIndex)].v
            theta == sol[ThetaSym(ClosedFormIndex)].v
        IN  /\ F = Hypot(SumX, SumY)
            /\ theta = Atan2(-SumY, -SumX)
            /\ (SumX # 0 \/ SumY # 0) =>
                  SameDirection(Degrees(theta), Atan2CentiDeg(SumY, SumX) + 180 * CentiDeg)
            /\ vectors = <<Vector(Num(0), Num(10), 0), Vector(None, None, 0)>> =>
                  F = 10 * Milli /\ Degrees(theta) % (360 * CentiDeg) = 180 * CentiDeg
            /\ vectors = <<Vector(Num(0), Num(10), 0), Vector(Num(90), Num(10), 0),
                           Vector(None, None, 0)>> =>
                  F = 14142 /\ Degrees(theta) % (360 * CentiDeg) = 225 * CentiDeg

C4_Witness ==
    /\ EqClosedForm
    /\ vectors = <<Vector(Num(0), Num(10), 0), Vector(Num(90), Num(10), 0),
                   Vector(None, None, 0)>>
    /\ solver_output.all_sols[1][FSym(3)].v = 14142

\* ---------------------------------------------------------------- C5
ResClosedForm == IsRes /\ Returned /\ UnsetSyms = {R_sym, alpha_sym_rad}

\* C5: solve_for_resultant with R and alpha the only unknowns returns exactly
\* one solution: R is the length of the sum of all force components (so not
\* negative) and alpha is atan2 of the summed y and x components.
C5_ResultantClosedForm ==
    ResClosedForm =>
        /\ Len(solver_output.all_sols) = 1
        /\ DOMAIN solver_output.all_sols[1] = {R_sym, alpha_sym_rad}
        /\ ~solver_output.sp_solve_called
        /\ AllForcesFinite =>
              LET sol == solver_output.all_sols[1]
              IN  /\ sol[R_sym] = Flt(Hypot(SumX, SumY))
                  /\ sol[R_sym].v >= 0
                  /\ sol[alpha_sym_rad] = Flt(Radians(Atan2CentiDeg(SumY, SumX)))

\* (10 @ 0), (10 @ 90) with R and alpha unknown: R = 14.142, alpha = 45 degrees
C5_Witness ==
    /\ ResClosedForm
    /\ vectors = <<Vector(Num(0), Num(10), 0), Vector(Num(90), Num(10), 0)>>
    /\ solver_output.all_sols[1][R_sym].v = 14142
    /\ Degrees(solver_output.all_sols[1][alpha_sym_rad].v) = 45 * CentiDeg

\* ---------------------------------------------------------------- C6
IsRealCand(sol) == \A s \in DOMAIN sol : sol[s].real

\* every force magnitude (and R) in the candidate is a number >= 0
NonNegMagnitudes(sol) ==
    \A s \in DOMAIN sol : s.t \in {"F", "R"} => (sol[s].real /\ sol[s].v >= 0)

TierA == SelectSeq(RawCandidates, LAMBDA c : IsRealCand(c) /\ NonNegMagnitudes(c))
TierB == SelectSeq(RawCandidates, IsRealCand)
TierC == RawCandidates

StoredAngleRad(sol, i) ==
    IF ThetaSym(i) \in DOMAIN sol THEN sol[ThetaSym(i)].v
    ELSE IF FieldNumeric(vectors[i].angle) THEN Radians(vectors[i].angle.v * CentiDeg)
    ELSE 0

C9_SolveFailureCaught ==
    (Called /\ solver_output.sp_solve_called /\ sympy_reply.raises) =>
        /\ ~solver_output.raised
        /\ solver_output.all_sols = <<>>
        /\ ~solver_output.error
        /\ solver_output.keys = (IF IsEq THEN EquilibriumKeys ELSE ResultantKeys)
        /\ "solve_error" \in solver_output.messages

C9_Witness ==
    /\ Called /\ solver_output.sp_solve_called /\ sympy_reply.raises
    /\ solver_output.branch = "general"
    /\ solver_output.all_sols = <<>>

\* ---------------------------------------------------------------- C10
\* a field that is neither a finite number nor unset
InvalidField(f) == ~FieldFinite(f) /\ ~FieldUnset(f)

HasInvalidField ==
    \E i \in 1..Len(vectors) :
        InvalidField(vectors[i].magnitude) \/ InvalidField(vectors[i].angle)

\* C10: a force field that is neither a finite number nor unset makes the
\* call return error = True at once, with no solutions, no equation data and
\* no solving, wherever the force stands in the sequence.
C10_InvalidFieldIsError ==
    (Called /\ HasInvalidField) =>
        /\ solver_output.error
        /\ solver_output.keys = {"error"}
        /\ solver_output.all_sols = <<>>
        /\ ~solver_output.sp_solve_called
        /\ solver_output.branch = "validation_error"

\* ---------------------------------------------------------------- C11
\* C11: a force field is in the unknown list iff it is unset (None or a
\* blank string); a number, 0 included, is known and adds no symbol, and a
\* list of numbers and unset fields is never an input error.
C11_UnknownIffUnset ==
    /\ Returned =>
          \A i \in 1..Len(vectors) :
              /\ InSeq(FSym(i), solver_output.unknown_symbols)
                    <=> FieldUnset(vectors[i].magnitude)
              /\ InSeq(ThetaSym(i), solver_output.unknown_symbols)
                    <=> FieldUnset(vectors[i].angle)
    /\ (IsEq /\ AllFieldsUnsetOrNumeric) => ~solver_output.error

\* a force of magnitude 0 beside an unset force: only the unset one is unknown
C11_Witness ==
    /\ IsEq /\ Returned
    /\ vectors = <<Vector(Num(90), Num(0), 0), Vector(None, None, 0)>>
    /\ solver_output.unknown_symbols = <<FSym(2), ThetaSym(2)>>

\* ---------------------------------------------------------------- C12
\* the unset rule of the force fields (None or a blank string), applied to an
\* argument
TargetUnset(a) == a.k \in {"empty", "blank", "None"}

\* text that is no number
TargetInvalid(a) == a.k = "text"

\* C12: in solve_for_resultant R (alpha) is unknown iff its argument is
\* unset, by the rule of the force fields; an argument that is not unset and
\* is no number gives error = True and nothing else; otherwise the value is
\* known.
C12_TargetRules ==
    (IsRes /\ AllFieldsUnsetOrNumeric) =>
        IF TargetInvalid(call.R) \/ TargetInvalid(call.alpha)
        THEN solver_output.error /\ solver_output.keys = {"error"}
        ELSE /\ ~solver_output.raised
             /\ ~solver_output.error
             /\ InSeq(R_sym, solver_output.unknown_symbols) <=> TargetUnset(call.R)
             /\ InSeq(alpha_sym_rad, solver_output.unknown_symbols)
                   <=> TargetUnset(call.alpha)

\* ---------------------------------------------------------------- C13
\* C13: every call of solve_for_equilibrium or solve_for_resultant returns a
\* result record (the error record or the full one); no exception reaches
\* the caller.
C13_NeverRaises ==
    Called =>
        /\ ~solver_output.raised
        /\ \/ solver_output.keys = {"error"}
           \/ solver_output.keys = (IF IsEq THEN EquilibriumKeys ELSE ResultantKeys)

\* ---------------------------------------------------------------- C14
\* C14: with every force fully numeric, solve_for_equilibrium reports "in
\* equilibrium" when the magnitude of the component sum is within the zero
\* tolerance, and "not in equilibrium", with the resultant magnitude and
\* angle, when it is not; (10 @ 0), (10 @ 120), (10 @ 240) is in equilibrium.
C14_EquilibriumClassified ==
    (IsEq /\ FastPathReturned /\ AllForcesFinite) =>
        /\ BelowTolerance(TrueMagnitude, FinePerUnit)
              => solver_output.messages = {"in_equilibrium"}
        /\ ~BelowTolerance(TrueMagnitude, FinePerUnit)
              => /\ solver_output.messages = {"not_in_equilibrium"}
                 /\ solver_output.calculated_R_mag =
                       Flt(RoundDiv(TrueMagnitude, FinePerUnit \div Milli))
                 /\ solver_output.calculated_R_alpha = Flt(Radians(TrueAngle))
        /\ vectors = <<Vector(Num(0), Num(10), 0), Vector(Num(120), Num(10), 0),
                       Vector(Num(240), Num(10), 0)>>
              => solver_output.messages = {"in_equilibrium"}

\* ---------------------------------------------------------------- C15
\* C15: with every force fully numeric and R and alpha given as numbers,
\* solve_for_resultant reports "consistent" iff the magnitude and the angle
\* of the resultant each agree with the given value within the zero
\* tolerance, and "inconsistent" otherwise.
C15_ConsistencyReported ==
    (IsRes /\ FastPathReturned /\ AllForcesFinite) =>
        LET agrees ==
              /\ BelowTolerance(TrueMagnitude - call.R.v * FinePerUnit, FinePerUnit)
              /\ BelowTolerance(TrueAngle - call.alpha.v * CentiDeg, CentiDeg)
        IN  solver_output.messages = (IF agrees THEN {"consistent"} ELSE {"inconsistent"})

\* ---------------------------------------------------------------- C16
\* C16: on the fast path of either solver the reported resultant angle is a
\* number in [0, 360) degrees.
C16_AngleRange ==
    FastPathReturned =>
        /\ solver_output.calculated_R_alpha.finite
        /\ Degrees(solver_output.calculated_R_alpha.v) >= 0
        /\ Degrees(solver_output.calculated_R_alpha.v) < 360 * CentiDeg

\* ---------------------------------------------------------------- C17
\* the classification of n unknowns against the 2 equations
Classification(n) ==
    IF n > 2 THEN {"underdetermined"}
    ELSE IF n < 2 THEN {"overdetermined"}
    ELSE {}

SolverAdvisory == solver_output.messages \cap {"underdetermined", "overdetermined"}

SameArguments ==
    /\ pinned.state = "set"
    /\ Called
    /\ call = pinned.call
    /\ vectors = pinned.vectors

\* what a call gives back, without the debug lines it wrote on the page
ResultOf(out) == [out EXCEPT !.debug_lines = FALSE]

SolveStep ==
    /\ call'.fn # "none"
    /\ <<call, solver_output, pinned>>' # <<call, solver_output, pinned>>

\* C19: a solve call changes neither the force sequence it was given
\* (length, order, every magnitude, angle and drawn_length) nor the session
\* state, whatever branch it takes.
C19_CallerStateUnchanged ==
    [][SolveStep => (vectors' = vectors /\ session_state' = session_state)]_vars

\* an error return on a sequence that holds an invalid field, under debug
C19_Witness ==
    /\ Called
    /\ solver_output.error
    /\ session_state.debug_mode
    /\ vectors = <<Vector(Num(0), Text, 0), Vector(None, None, 0)>>

\* ---------------------------------------------------------------- C20
\* the equilibrium solver was called on the sequence that holds the
\* written-back solution
ResolvedAfterWriteBack == written # 0 /\ IsEq

\* C20: after the closed-form solution is written back into the unknown
\* force (the angle in degrees), solve_for_equilibrium takes the fast path
\* and reports the system in equilibrium.
C20_RoundTrip ==
    ResolvedAfterWriteBack =>
        /\ solver_output.branch = "fast_path"
        /\ solver_output.messages = {"in_equilibrium"}
\* ---------------------------------------------------------------- C21
\* the place of a symbol in the order "by force index, magnitude before
\* angle, then R, then alpha"
SymbolRank(s) ==
    CASE s.t = "F" -> 2 * s.i
      [] s.t = "theta_rad" -> 2 * s.i + 1
      [] s.t = "R" -> 2 * Len(vectors) + 2
      [] s.t = "alpha_rad" -> 2 * Len(vectors) + 3

\* C21: on a return without error the unknown list holds exactly the symbols
\* of the unset fields, each once, in the order of the force index (the
\* magnitude of a force before its angle), then R, then alpha.
C21_UnknownListOrdered ==
    Returned =>
        LET u == solver_output.unknown_symbols
        IN  /\ Range(u) = UnsetSyms
            /\ Len(u) = Cardinality(UnsetSyms)
            /\ \A p, q \in 1..Len(u) : p < q => SymbolRank(u[p]) < SymbolRank(u[q])

\* a resultant call with an unset magnitude, a fully unset force and both
\* targets unset
C21_Witness ==
    /\ IsRes /\ Returned
    /\ solver_output.unknown_symbols =
          <<FSym(1), FSym(2), ThetaSym(2), R_sym, alpha_sym_rad>>
\* ---------------------------------------------------------------- C22
\* C22: every return of either solver carries the solution-list key and the
\* unknown-symbol key, also when there is nothing to report (no candidates,
\* a failed sp.solve, a validation failure).
C22_RecordPopulated ==
    (Called /\ ~solver_output.raised) =>
        {"all_sols", "unknown_symbols"} \subseteq solver_output.keys
\* ---------------------------------------------------------------- C23
\* entry i of a raw term list is the term of force i with the given function
TermOfForce(terms, i, trig) ==
    /\ terms[i].i = i
    /\ terms[i].trig = trig
    /\ terms[i].mag_known <=> FieldNumeric(vectors[i].magnitude)
    /\ terms[i].ang_known <=> FieldNumeric(vectors[i].angle)

\* C23: on a return without error the raw term list of the x equation has
\* one cosine entry per force and that of the y equation one sine entry per
\* force, in force order, whether the force's fields are known or not.
C23_OneTermPerForce ==
    Returned =>
        /\ Len(solver_output.sum_fx_latex_raw_trig_terms) = Len(vectors)
        /\ Len(solver_output.sum_fy_latex_raw_trig_terms) = Len(vectors)
        /\ \A i \in 1..Len(vectors) :
              /\ TermOfForce(solver_output.sum_fx_latex_raw_trig_terms, i, "cos")
              /\ TermOfForce(solver_output.sum_fy_latex_raw_trig_terms, i, "sin")

\* three forces: one known, one with an unset magnitude, one fully unset
C23_Witness ==
    /\ Returned
    /\ Len(vectors) = 3
    /\ FieldNumeric(vectors[1].magnitude) /\ FieldNumeric(vectors[1].angle)
    /\ FieldUnset(vectors[2].magnitude) /\ FieldNumeric(vectors[2].angle)
    /\ FieldUnset(vectors[3].magnitude) /\ FieldUnset(vectors[3].angle)
    /\ Len(solver_output.sum_fx_latex_raw_trig_terms) = 3
\* ---------------------------------------------------------------- C24
\* C24: every rerun is asked for at the final rerun logic at the end of the
\* script, whatever the user did in the run (drawing, editing or deleting a
\* force, picking the origin, changing the scale, clearing).
C24_RerunOnlyAtEnd ==
    ui.pending => ui.site = "end"
\* ---------------------------------------------------------------- C25
\* st.session_state without the two keys the final rerun logic writes
Besides(ss) ==
    [k \in DOMAIN ss \ {"trigger_rerun_after_logic", "canvas_reset"} |-> ss[k]]

\* the step is a run started by a rerun in which the session stays as it was
QuietRun ==
    /\ ui.pending
    /\ Besides(session_state') = Besides(session_state)

\* C25: the run that follows a request for a rerun starts with
\* trigger_rerun_after_logic = false and with canvas_reset one greater than
\* it was in the asking run; a run started by a rerun in which nothing
\* changes asks for no further rerun.
C25_RerunLoopSettles ==
    [][/\ ui.pending => /\ ui'.start_trigger = FALSE
                        /\ ui'.start_canvas_reset = ui.end_canvas_reset + 1
       /\ QuietRun => ~ui'.pending]_vars
\* ---------------------------------------------------------------- C26
\* the keys a reset keeps: the essential ones and the caller's, as far as
\* they were in the session
KeptKeys(ss, preserve_keys) == (EssentialKeys \cup preserve_keys) \cap DOMAIN ss

\* C26: after reset_all_app_state every common key is present, every key to
\* preserve that was there before has the value it had, and every other
\* common key has its default.
C26_ResetAllAppState ==
    [][ui'.event.t = "reset_call" =>
          LET kept == KeptKeys(session_state, ui'.preserve_keys)
          IN  /\ CommonKeys \subseteq DOMAIN session_state'
              /\ \A k \in kept : session_state'[k] = session_state[k]
              /\ \A k \in CommonKeys \ kept : session_state'[k] = CommonDefaults[k]]_vars

\* a reset after F1 was added and given a magnitude: the scale it defined is
\* kept, the forces are gone
C26_Witness ==
    /\ ui.event.t = "reset_call"
    /\ ui.preserve_keys = {}
    /\ session_state.user_defined_scale_active
    /\ session_state.calculated_pixel_to_unit_scale = Num(10 * ScaleCenti)
    /\ session_state.reference_magnitude = Num(10)
    /\ session_state.vectors = <<>>
    /\ "trigger_rerun_after_logic" \notin DOMAIN session_state
\* ---------------------------------------------------------------- C27
\* no user-defined scale is active and F1 has a positive numeric magnitude
ScaleToDefine ==
    /\ ui.opened
    /\ ~session_state.user_defined_scale_active
    /\ session_state.vectors # <<>>
    /\ PositiveNumber(session_state.vectors[1].magnitude)

\* C27: whenever no user-defined scale is active and F1, drawn or added by
\* hand, has a positive numeric magnitude, render_drawing_scale_settings
\* activates the scale with pixels per unit = reference length / magnitude
\* of F1, whatever was drawn, added, edited, reset or cleared before.
C27_AutoScale ==
    ScaleToDefine =>
        LET defined == render_drawing_scale_settings(
                           session_state, Event("rerun", 0, "", StrEmpty, NoLine))
        IN  /\ defined.user_defined_scale_active
            /\ defined.reference_drawn_length # None
            /\ defined.calculated_pixel_to_unit_scale =
                   ScaleFrom(defined.reference_drawn_length.v,
                             session_state.vectors[1].magnitude)
\* ---------------------------------------------------------------- C28
\* C28: at the end of every script run, after whatever defined, adjusted or
\* reset the scale or reset the app state, an active user-defined scale is a
\* number greater than 0.
C28_ActiveScalePositive ==
    (ui.opened /\ session_state.user_defined_scale_active) =>
        /\ session_state.calculated_pixel_to_unit_scale # None
        /\ session_state.calculated_pixel_to_unit_scale.v > 0
\* ---------------------------------------------------------------- C29
\* what an entry is to store in the field f: None for a blank entry, the
\* number for an entry float() accepts (an angle within [0, 360)), the text
\* otherwise
StoresEntry(e, f, stored) ==
    IF e.k \in {"empty", "blank"} THEN stored = None
    ELSE IF e.k = "text" THEN stored = Text
    ELSE /\ IsFloatOrInt(stored)
         /\ e.k = "numeric" /\ f = "magnitude" => stored = Num(e.v)
         /\ f = "angle" =>
               /\ stored.k = "num"
               /\ 0 <= stored.v /\ stored.v < 360
               /\ e.k = "numeric" => (stored.v - e.v) % 360 = 0

\* C29: the sidebar stores None for a blank entry, a number for a numeric
\* entry (an angle normalized into [0, 360)) and the text for any other
\* entry, so that a solve of the forces with such a text reports a
\* validation error; it asks for a rerun only when a stored value changes.
C29_SidebarParsing ==
    [][/\ ui'.event.t = "edit" =>
             /\ StoresEntry(ui'.event.e, ui'.event.f,
                            session_state'.vectors[ui'.event.i][ui'.event.f])
             /\ ui'.event.e.k = "text" =>
                   solve_for_equilibrium(session_state'.vectors, sympy_reply, FALSE).error
       /\ ui'.input_change => session_state'.vectors # session_state.vectors]_vars
\* ---------------------------------------------------------------- C30
\* last_solve_click is set in the session the step starts from
LatchSet ==
    /\ "last_solve_click" \in DOMAIN session_state
    /\ session_state.last_solve_click

\* C30: in every script run that starts with the latch set, or in which the
\* Solve button is clicked, and in which the app state is not reset, the
\* solver is called with the current forces; a result with error = true
\* clears the latch, any other leaves it set; in a run with the latch clear
\* the solver is not called.
C30_SolveLatch ==
    [][ui'.event.t # "reset_call" =>
          /\ ((LatchSet \/ ui'.event.t = "solve") /\ ~ui'.reset) =>
                /\ call'.fn = "equilibrium"
                /\ solver_output' =
                       solve_for_equilibrium(session_state'.vectors, sympy_reply,
                                             session_state'.debug_mode)
                /\ session_state'.last_solve_click = ~solver_output'.error
          /\ call'.fn = "equilibrium" => (LatchSet \/ ui'.event.t = "solve")]_vars
====
